---------------------------- MODULE Spec2Model ----------------------------
(***************************************************************************)
(* WealthWise personal-finance application: the rule-based assistant       *)
(* (AIService.generateResponse), the insight generator                     *)
(* (InsightService.generateInsights), the dashboard's financial totals,   *)
(* the per-user transaction store over localStorage (TransactionService)   *)
(* and the dashboard handlers that sign in, add and delete.                *)
(*                                                                         *)
(* Text is modelled as a sequence of one-character strings so that         *)
(* String.prototype.includes / toLowerCase are real substring search and   *)
(* case folding.  Money is an integer number of cents (156.40 is 15640).   *)
(* An instant is a record [day, ms]: a calendar-day index and the offset   *)
(* inside that day.                                                        *)
(***************************************************************************)
EXTENDS Integers, Sequences, FiniteSets, TLC

VARIABLES
    query,          \* argument of AIService.generateResponse
    transactions,   \* the Transaction[] handed to the services / dashboard state
    now,            \* value of new Date() inside generateResponse
    response,       \* settled state of the promise generateResponse returns
    financials,     \* result of Dashboard.calculateFinancials
    insights,       \* result of InsightService.generateInsights
    storage,        \* localStorage: the item stored under each wealthwise_data_ key
    nextUuid,       \* the identifiers uuidv4() has handed out so far, plus one
    user,           \* AuthContext state: id of the signed-in user, or NoUser
    errors,         \* Dashboard state: the form fields flagged by validation
    returned,       \* what the latest call of a TransactionService method returned
    session,        \* localStorage: the item stored under wealthwise_current_user
    chat,           \* ChatAssistant: its props and state while it is mounted
    tabs,           \* two browser tabs of one user, each inside TransactionService.add
    mounted         \* AuthProvider: its mount effect has run

clientVars == <<session, chat, tabs, mounted>>

appVars == <<storage, nextUuid, user, errors, returned, session, chat, tabs, mounted>>

vars == <<query, transactions, now, response, financials, insights,
          storage, nextUuid, user, errors, returned, session, chat, tabs, mounted>>

-----------------------------------------------------------------------------
(* Bounds of the explored inputs *)

MaxTx == 3
MaxPhrases == 2
MonthDays == 3
MaxUuid == 12
MaxDay == 5
MaxAdded == 1
MaxDeleted == 1

-----------------------------------------------------------------------------
(* Text primitives *)

UpperCaseLetters ==
    <<"A","B","C","D","E","F","G","H","I","J","K","L","M",
      "N","O","P","Q","R","S","T","U","V","W","X","Y","Z">>

LowerCaseLetters ==
    <<"a","b","c","d","e","f","g","h","i","j","k","l","m",
      "n","o","p","q","r","s","t","u","v","w","x","y","z">>

\* toLowerCase left out: the query is matched as typed
toLowerCase_asTyped(s) == s

\* the lower-case form of each upper-case letter, and the converse
LowerOf ==
    [c \in { UpperCaseLetters[k] : k \in 1..26 } |->
        LowerCaseLetters[CHOOSE k \in 1..26 : UpperCaseLetters[k] = c]]

UpperOf ==
    [c \in { LowerCaseLetters[k] : k \in 1..26 } |->
        UpperCaseLetters[CHOOSE k \in 1..26 : LowerCaseLetters[k] = c]]

\* String.prototype.toLowerCase
toLowerCase(s) ==
    [i \in 1..Len(s) |-> IF s[i] \in DOMAIN LowerOf THEN LowerOf[s[i]] ELSE s[i]]

\* String.prototype.toUpperCase
toUpperCase(s) ==
    [i \in 1..Len(s) |-> IF s[i] \in DOMAIN UpperOf THEN UpperOf[s[i]] ELSE s[i]]

\* String.prototype.includes
includes(s, sub) ==
    \/ sub = <<>>
    \/ \E i \in 0..(Len(s) - Len(sub)) :
          /\ s[i + 1] = sub[1]
          /\ \A j \in 2..Len(sub) : s[i + j] = sub[j]

\* Array.prototype.reduce((s, t) => s + t.amount, 0)
RECURSIVE sumAmounts(_)
sumAmounts(ts) ==
    IF ts = <<>> THEN 0 ELSE ts[1].amount + sumAmounts(Tail(ts))

Abs(x) == IF x < 0 THEN -x ELSE x

-----------------------------------------------------------------------------
(* Literals of aiService.ts *)

KW_balance == <<"b", "a", "l", "a", "n", "c", "e">>
KW_status == <<"s", "t", "a", "t", "u", "s">>
KW_savings_rate == <<"s", "a", "v", "i", "n", "g", "s", " ", "r", "a", "t", "e">>
KW_net_worth == <<"n", "e", "t", " ", "w", "o", "r", "t", "h">>
KW_vs == <<"v", "s">>
KW_compare == <<"c", "o", "m", "p", "a", "r", "e">>
KW_more_than == <<"m", "o", "r", "e", " ", "t", "h", "a", "n">>
KW_today == <<"t", "o", "d", "a", "y">>
KW_yesterday == <<"y", "e", "s", "t", "e", "r", "d", "a", "y">>
KW_month == <<"m", "o", "n", "t", "h">>
KW_spent == <<"s", "p", "e", "n", "t">>
KW_expense == <<"e", "x", "p", "e", "n", "s", "e">>
KW_cost == <<"c", "o", "s", "t">>

\* const categories = [...]
categories ==
    << <<"f", "o", "o", "d">>,
       <<"h", "o", "u", "s", "i", "n", "g">>,
       <<"t", "r", "a", "n", "s", "p", "o", "r", "t">>,
       <<"u", "t", "i", "l", "i", "t", "i", "e", "s">>,
       <<"e", "n", "t", "e", "r", "t", "a", "i", "n", "m", "e", "n", "t">>,
       <<"s", "h", "o", "p", "p", "i", "n", "g">>,
       <<"h", "e", "a", "l", "t", "h">>,
       <<"s", "a", "l", "a", "r", "y">>,
       <<"f", "r", "e", "e", "l", "a", "n", "c", "e">>,
       <<"o", "t", "h", "e", "r">> >>

\* /interest rate|mortgage|stock|market|price|inflation|crypto|invest/
MARKET_PATTERN ==
    { <<"i", "n", "t", "e", "r", "e", "s", "t", " ", "r", "a", "t", "e">>,
      <<"m", "o", "r", "t", "g", "a", "g", "e">>,
      <<"s", "t", "o", "c", "k">>,
      <<"m", "a", "r", "k", "e", "t">>,
      <<"p", "r", "i", "c", "e">>,
      <<"i", "n", "f", "l", "a", "t", "i", "o", "n">>,
      <<"c", "r", "y", "p", "t", "o">>,
      <<"i", "n", "v", "e", "s", "t">> }

\* TransactionCategory values used by the explored transactions
Cat_Food == <<"F", "o", "o", "d">>
Cat_Housing == <<"H", "o", "u", "s", "i", "n", "g">>
Cat_Transport == <<"T", "r", "a", "n", "s", "p", "o", "r", "t">>
Cat_Entertainment == <<"E", "n", "t", "e", "r", "t", "a", "i", "n", "m", "e", "n", "t">>
Cat_Salary == <<"S", "a", "l", "a", "r", "y">>
Cat_Freelance == <<"F", "r", "e", "e", "l", "a", "n", "c", "e">>
Cat_Shopping == <<"S", "h", "o", "p", "p", "i", "n", "g">>
Cat_Utilities == <<"U", "t", "i", "l", "i", "t", "i", "e", "s">>
Cat_Health == <<"H", "e", "a", "l", "t", "h">>
Cat_Other == <<"O", "t", "h", "e", "r">>
-----------------------------------------------------------------------------
(* Dates (date-fns) *)

\* parseISO: the instant an ISO-8601 string written by toISOString denotes
parseISO(d) == [day |-> d.day, ms |-> d.ms]

isSameDay(a, b) == a.day = b.day

isAfter(a, b) == a.day > b.day \/ (a.day = b.day /\ a.ms > b.ms)

subDays(d, n) == [day |-> d.day - n, ms |-> d.ms]

\* first instant of the calendar month of d; a month has MonthDays days
startOfMonth(d) == [day |-> d.day - (d.day % MonthDays), ms |-> 0]

-----------------------------------------------------------------------------
(* Number formatting *)

\* formatCurrency(amount): currency symbol, sign, whole units, 2 decimals
formatCurrency(cents) ==
    [negative |-> cents < 0,
     whole    |-> Abs(cents) \div 100,
     frac     |-> Abs(cents) % 100]

\* Number.prototype.toFixed(1) of the ratio r.num / r.den (r.den > 0):
\* one decimal, ties away from zero
toFixed1(r) ==
    LET a      == Abs(r.num)
        q0     == a \div r.den
        r0     == a % r.den
        q1     == (10 * r0) \div r.den
        r1     == (10 * r0) % r.den
        tenths == 10 * q0 + q1 + (IF 2 * r1 >= r.den THEN 1 ELSE 0)
    IN  [negative |-> r.num < 0,
         whole    |-> tenths \div 10,
         frac     |-> tenths % 10]

-----------------------------------------------------------------------------
(* AIService.generateResponse *)

SYSTEM_PROMPT ==
    [role       |-> "FinAdvisor Pro",
     expertise  |-> "Advanced Financial Analytics & Market Intelligence",
     disclaimer |-> "Disclaimer: AI-generated insight for educational use."]

Pending == [kind |-> "pending"]
Resolved(body) == [kind |-> "resolved", body |-> body, suffix |-> SYSTEM_PROMPT.disclaimer]
Rejected(e) == [kind |-> "rejected", error |-> e]

\* transactions.filter(t => t.type === 'expense')
expensesOf(ts) == SelectSeq(ts, LAMBDA t : t.type = "expense")

\* transactions.filter(t => t.type === 'income')
incomeOf(ts) == SelectSeq(ts, LAMBDA t : t.type = "income")

\* the expenses added instead of subtracted
totalBalance_added(ts) == sumAmounts(incomeOf(ts)) + sumAmounts(expensesOf(ts))

totalBalance(ts) == sumAmounts(incomeOf(ts)) - sumAmounts(expensesOf(ts))

\* totalIncome > 0 ? (totalBalance / totalIncome) * 100 : 0, kept as a ratio
savingsRate(ts) ==
    LET totalIncome == sumAmounts(incomeOf(ts))
    IN  IF totalIncome > 0
        THEN [num |-> totalBalance(ts) * 100, den |-> totalIncome]
        ELSE [num |-> 0, den |-> 1]

\* the 20% of the advisory's wording used as the threshold
belowBenchmark_twenty(r) == r.num < 20 * r.den

\* savingsRate < 15
belowBenchmark(r) == r.num < 15 * r.den

\* A. Portfolio Status & Efficiency
statusIntent(q) ==
    \/ includes(q, KW_balance)
    \/ includes(q, KW_status)
    \/ includes(q, KW_savings_rate)
    \/ includes(q, KW_net_worth)

statusReport(ts, at) ==
    LET rate == savingsRate(ts)
    IN  [template    |-> "Executive Financial Summary",
         asOf        |-> at.day,
         balance     |-> formatCurrency(totalBalance(ts)),
         savingsRate |-> toFixed1(rate),
         records     |-> Len(ts),
         advisory    |-> belowBenchmark(rate)]

\* categories.filter(cat => q.includes(cat))
mentionedCategories(q) == SelectSeq(categories, LAMBDA cat : includes(q, cat))

\* || in place of the first &&
comparisonIntent_or(q) ==
    \/ Len(mentionedCategories(q)) >= 2
    \/ includes(q, KW_vs)
    \/ includes(q, KW_compare)
    \/ includes(q, KW_more_than)

\* B. Comparison Intent
comparisonIntent(q) ==
    /\ Len(mentionedCategories(q)) >= 2
    /\ \/ includes(q, KW_vs)
       \/ includes(q, KW_compare)
       \/ includes(q, KW_more_than)

\* expenses.filter(t => t.category.toLowerCase() === cat).reduce(...)
categoryAmount(expenses, cat) ==
    sumAmounts(SelectSeq(expenses, LAMBDA t : toLowerCase(t.category) = cat))

\* >= in the reducer: the last of several equal categories wins
largerOf_orEqual(expenses, prev, curr) ==
    IF categoryAmount(expenses, curr) >= categoryAmount(expenses, prev)
    THEN curr ELSE prev

\* the reducer of winner: currAmt > prevAmt ? curr : prev
largerOf(expenses, prev, curr) ==
    IF categoryAmount(expenses, curr) > categoryAmount(expenses, prev)
    THEN curr ELSE prev

RECURSIVE reduceWinner(_, _, _)
reduceWinner(expenses, prev, rest) ==
    IF rest = <<>> THEN prev
    ELSE reduceWinner(expenses, largerOf(expenses, prev, rest[1]), Tail(rest))

\* the category amounts taken over all transactions, income included
comparisonReport_allTypes(ts, mentioned) ==
    LET lines == [i \in 1..Len(mentioned) |->
                    [category |-> toUpperCase(mentioned[i]),
                     amount   |-> formatCurrency(categoryAmount(ts, mentioned[i]))]]
    IN  IF mentioned = <<>>
        THEN Rejected("TypeError")
        ELSE Resolved([template |-> "Category Comparison Report",
                       lines    |-> lines,
                       winner   |-> toUpperCase(
                           reduceWinner(ts, mentioned[1], Tail(mentioned)))])

\* reduce without an initial value throws a TypeError on an empty array
comparisonReport(ts, mentioned) ==
    LET expenses == expensesOf(ts)
        lines == [i \in 1..Len(mentioned) |->
                    [category |-> toUpperCase(mentioned[i]),
                     amount   |-> formatCurrency(categoryAmount(expenses, mentioned[i]))]]
    IN  IF mentioned = <<>>
        THEN Rejected("TypeError")
        ELSE Resolved([template |-> "Category Comparison Report",
                       lines    |-> lines,
                       winner   |-> toUpperCase(
                           reduceWinner(expenses, mentioned[1], Tail(mentioned)))])

\* "month" tested before "yesterday"
timeFilter_monthFirst(q, expenses, at) ==
    IF includes(q, KW_today)
    THEN [filtered |-> SelectSeq(expenses, LAMBDA t : isSameDay(parseISO(t.date), at)),
          label    |-> "today"]
    ELSE IF includes(q, KW_month)
    THEN [filtered |-> SelectSeq(expenses,
                          LAMBDA t : isAfter(parseISO(t.date), startOfMonth(at))),
          label    |-> "this month"]
    ELSE IF includes(q, KW_yesterday)
    THEN [filtered |-> SelectSeq(expenses,
                          LAMBDA t : isSameDay(parseISO(t.date), subDays(at, 1))),
          label    |-> "yesterday"]
    ELSE [filtered |-> expenses, label |-> "all-time"]

\* C. Temporal/Time-Based Intent
timeFilter(q, expenses, at) ==
    IF includes(q, KW_today)
    THEN [filtered |-> SelectSeq(expenses, LAMBDA t : isSameDay(parseISO(t.date), at)),
          label    |-> "today"]
    ELSE IF includes(q, KW_yesterday)
    THEN [filtered |-> SelectSeq(expenses,
                          LAMBDA t : isSameDay(parseISO(t.date), subDays(at, 1))),
          label    |-> "yesterday"]
    ELSE IF includes(q, KW_month)
    THEN [filtered |-> SelectSeq(expenses,
                          LAMBDA t : isAfter(parseISO(t.date), startOfMonth(at))),
          label    |-> "this month"]
    ELSE [filtered |-> expenses, label |-> "all-time"]

\* D. Calculation Intent
calculationIntent(q) ==
    \/ includes(q, KW_spent)
    \/ includes(q, KW_expense)
    \/ includes(q, KW_cost)

\* the last mentioned category taken instead of the first
spendingReport_lastMentioned(q, ts, at) ==
    LET mentioned  == mentionedCategories(q)
        time       == timeFilter(q, expensesOf(ts), at)
        cat        == IF mentioned # <<>> THEN mentioned[Len(mentioned)]
                      ELSE <<"o","v","e","r","a","l","l">>
        targetData == IF mentioned # <<>>
                      THEN SelectSeq(time.filtered, LAMBDA t : toLowerCase(t.category) = cat)
                      ELSE time.filtered
        total      == sumAmounts(targetData)
    IN  [template   |-> "Tactical Spending Analysis",
         target     |-> cat,
         period     |-> time.label,
         volume     |-> formatCurrency(total),
         density    |-> Len(targetData),
         highVolume |-> total > 100000]

spendingReport(q, ts, at) ==
    LET mentioned  == mentionedCategories(q)
        time       == timeFilter(q, expensesOf(ts), at)
        targetData == IF mentioned # <<>>
                      THEN SelectSeq(time.filtered,
                               LAMBDA t : toLowerCase(t.category) = mentioned[1])
                      ELSE time.filtered
        total      == sumAmounts(targetData)
    IN  [template   |-> "Tactical Spending Analysis",
         target     |-> IF mentioned # <<>> THEN mentioned[1] ELSE <<"o","v","e","r","a","l","l">>,
         period     |-> time.label,
         volume     |-> formatCurrency(total),
         density    |-> Len(targetData),
         highVolume |-> total > 100000]

\* E. Market Intelligence
marketIntent(q) ==
    /\ ~includes(q, KW_savings_rate)
    /\ \E p \in MARKET_PATTERN : includes(q, p)

\* the fallback returned without the disclaimer
generateResponse_bareFallback(rawQuery, ts, at) ==
    LET q == toLowerCase(rawQuery)
    IN  IF statusIntent(q)
        THEN Resolved(statusReport(ts, at))
        ELSE IF comparisonIntent(q)
        THEN comparisonReport(ts, mentionedCategories(q))
        ELSE IF calculationIntent(q)
        THEN Resolved(spendingReport(q, ts, at))
        ELSE IF marketIntent(q)
        THEN Resolved([template |-> "Market Intelligence Report", subject |-> rawQuery])
        ELSE [kind |-> "resolved",
              body |-> [template |-> "WealthWise Intelligence Console"],
              suffix |-> ""]

\* the comparison intent tested before the status intent
generateResponse_comparisonFirst(rawQuery, ts, at) ==
    LET q == toLowerCase(rawQuery)
    IN  IF comparisonIntent(q)
        THEN comparisonReport(ts, mentionedCategories(q))
        ELSE IF statusIntent(q)
        THEN Resolved(statusReport(ts, at))
        ELSE IF calculationIntent(q)
        THEN Resolved(spendingReport(q, ts, at))
        ELSE IF marketIntent(q)
        THEN Resolved([template |-> "Market Intelligence Report", subject |-> rawQuery])
        ELSE Resolved([template |-> "WealthWise Intelligence Console"])

\* the market report quotes the balance of the list
generateResponse_marketWithBalance(rawQuery, ts, at) ==
    LET q == toLowerCase(rawQuery)
    IN  IF statusIntent(q)
        THEN Resolved(statusReport(ts, at))
        ELSE IF comparisonIntent(q)
        THEN comparisonReport(ts, mentionedCategories(q))
        ELSE IF calculationIntent(q)
        THEN Resolved(spendingReport(q, ts, at))
        ELSE IF marketIntent(q)
        THEN Resolved([template |-> "Market Intelligence Report", subject |-> rawQuery,
                       balance |-> formatCurrency(totalBalance(ts))])
        ELSE Resolved([template |-> "WealthWise Intelligence Console"])

generateResponse(rawQuery, ts, at) ==
    LET q == toLowerCase(rawQuery)
    IN  IF statusIntent(q)
        THEN Resolved(statusReport(ts, at))
        ELSE IF comparisonIntent(q)
        THEN comparisonReport(ts, mentionedCategories(q))
        ELSE IF calculationIntent(q)
        THEN Resolved(spendingReport(q, ts, at))
        ELSE IF marketIntent(q)
        THEN Resolved([template |-> "Market Intelligence Report", subject |-> rawQuery])
        ELSE Resolved([template |-> "WealthWise Intelligence Console"])

-----------------------------------------------------------------------------
(* Dashboard.calculateFinancials *)

calculateFinancials(ts) ==
    LET income  == sumAmounts(SelectSeq(ts, LAMBDA t : t.type = "income"))
        expense == sumAmounts(SelectSeq(ts, LAMBDA t : t.type = "expense"))
    IN  [income |-> income, expense |-> expense, balance |-> income - expense]

-----------------------------------------------------------------------------
(* InsightService.generateInsights *)

KW_subscription == <<"s", "u", "b", "s", "c", "r", "i", "p", "t", "i", "o", "n">>

INSIGHT_WARNING == "Warning: Expenses exceed income. Review your non-essential spending."
INSIGHT_LOW_SAVINGS == "You're saving less than 20% of your income. Aim to reduce discretionary spending."
INSIGHT_HEALTHY == "Great job! You are maintaining a healthy savings rate above 20%."
INSIGHT_FOOD == "Food spending is high (>$500). Cooking at home could save significant money."
INSIGHT_SUBSCRIPTIONS == "Entertainment & Subscriptions are adding up. Check for unused services."

\* >= in the 80% test
savingsInsight_orEqual(ts) ==
    LET totalExpense == sumAmounts(expensesOf(ts))
        totalIncome  == sumAmounts(incomeOf(ts))
    IN  IF totalExpense > totalIncome
        THEN <<INSIGHT_WARNING>>
        ELSE IF totalIncome > 0 /\ 10 * totalExpense >= 8 * totalIncome
        THEN <<INSIGHT_LOW_SAVINGS>>
        ELSE IF totalIncome > 0
        THEN <<INSIGHT_HEALTHY>>
        ELSE <<>>

\* Savings Rate Logic; totalExpense > totalIncome * 0.8 in cents is 10 * e > 8 * i
savingsInsight(ts) ==
    LET totalExpense == sumAmounts(expensesOf(ts))
        totalIncome  == sumAmounts(incomeOf(ts))
    IN  IF totalExpense > totalIncome
        THEN <<INSIGHT_WARNING>>
        ELSE IF totalIncome > 0 /\ 10 * totalExpense > 8 * totalIncome
        THEN <<INSIGHT_LOW_SAVINGS>>
        ELSE IF totalIncome > 0
        THEN <<INSIGHT_HEALTHY>>
        ELSE <<>>

\* the food total taken over all transactions, income included
foodExpenses_allTypes(ts) ==
    sumAmounts(SelectSeq(ts, LAMBDA t : t.category = Cat_Food))

\* Category Specific Logic
foodExpenses(ts) ==
    sumAmounts(SelectSeq(expensesOf(ts), LAMBDA t : t.category = Cat_Food))

foodInsight(ts) ==
    IF foodExpenses(ts) > 50000 THEN <<INSIGHT_FOOD>> ELSE <<>>

\* the two conditions summed separately: a transaction meeting both counts twice
subExpenses_twice(ts) ==
    sumAmounts(SelectSeq(expensesOf(ts),
        LAMBDA t : includes(toLowerCase(t.description), KW_subscription)))
    + sumAmounts(SelectSeq(expensesOf(ts), LAMBDA t : t.category = Cat_Entertainment))

subExpenses(ts) ==
    sumAmounts(SelectSeq(expensesOf(ts),
        LAMBDA t : \/ includes(toLowerCase(t.description), KW_subscription)
                   \/ t.category = Cat_Entertainment))

subscriptionInsight(ts) ==
    IF subExpenses(ts) > 20000 THEN <<INSIGHT_SUBSCRIPTIONS>> ELSE <<>>

\* the savings rules as independent ifs: both the 80% string and a second one
generateInsights_noElse(ts) ==
    LET totalExpense == sumAmounts(expensesOf(ts))
        totalIncome  == sumAmounts(incomeOf(ts))
    IN  (IF totalExpense > totalIncome THEN <<INSIGHT_WARNING>> ELSE <<>>)
        \o (IF totalIncome > 0 /\ 10 * totalExpense > 8 * totalIncome
            THEN <<INSIGHT_LOW_SAVINGS>> ELSE <<>>)
        \o foodInsight(ts) \o subscriptionInsight(ts)

\* the food rule placed before the savings rules
generateInsights_foodFirst(ts) ==
    foodInsight(ts) \o savingsInsight(ts) \o subscriptionInsight(ts)

\* InsightService.generateInsights
generateInsights(ts) ==
    savingsInsight(ts) \o foodInsight(ts) \o subscriptionInsight(ts)

-----------------------------------------------------------------------------
(* Explored inputs *)

Space == <<" ">>

RECURSIVE joinWords(_)
joinWords(ws) ==
    IF ws = <<>> THEN <<>>
    ELSE IF Len(ws) = 1 THEN ws[1]
    ELSE ws[1] \o Space \o joinWords(Tail(ws))

SeqsUpTo(S, n) == UNION { [1..k -> S] : k \in 0..n }

\* ids are assigned by position so that they are unique inside a list
withIds(ts) == [i \in 1..Len(ts) |-> [id |-> i] @@ ts[i]]

Instant(d, m) == [day |-> d, ms |-> m]

Tx(desc, amt, ty, cat, at) ==
    [description |-> desc, amount |-> amt, type |-> ty, category |-> cat, date |-> at]

\* words and phrases a query is assembled from: every trigger of the intent engine,
\* once; a query takes some of them in this order
Phrases ==
    << <<"B", "a", "l", "a", "n", "c", "e">>,
      <<"s", "t", "a", "t", "u", "s">>,
      <<"S", "a", "v", "i", "n", "g", "s", " ", "R", "a", "t", "e">>,
      <<"n", "e", "t", " ", "w", "o", "r", "t", "h">>,
      <<"v", "s">>,
      <<"c", "o", "m", "p", "a", "r", "e">>,
      <<"m", "o", "r", "e", " ", "t", "h", "a", "n">>,
      <<"F", "o", "o", "d">>,
      <<"h", "o", "u", "s", "i", "n", "g">>,
      <<"t", "r", "a", "n", "s", "p", "o", "r", "t">>,
      <<"u", "t", "i", "l", "i", "t", "i", "e", "s">>,
      <<"e", "n", "t", "e", "r", "t", "a", "i", "n", "m", "e", "n", "t">>,
      <<"s", "h", "o", "p", "p", "i", "n", "g">>,
      <<"h", "e", "a", "l", "t", "h">>,
      <<"s", "a", "l", "a", "r", "y">>,
      <<"f", "r", "e", "e", "l", "a", "n", "c", "e">>,
      <<"o", "t", "h", "e", "r">>,
      <<"F", "o", "o", "d", " ", "v", "s", " ", "T", "r", "a", "n", "s", "p", "o", "r", "t">>,
      <<"c", "o", "m", "p", "a", "r", "e", " ", "s", "a", "l", "a", "r", "y", " ", "a", "n", "d", " ", "f", "o", "o", "d">>,
      <<"s", "p", "e", "n", "t">>,
      <<"e", "x", "p", "e", "n", "s", "e">>,
      <<"c", "o", "s", "t">>,
      <<"t", "o", "d", "a", "y">>,
      <<"y", "e", "s", "t", "e", "r", "d", "a", "y">>,
      <<"m", "o", "n", "t", "h">>,
      <<"i", "n", "t", "e", "r", "e", "s", "t", " ", "r", "a", "t", "e">>,
      <<"m", "o", "r", "t", "g", "a", "g", "e">>,
      <<"s", "t", "o", "c", "k">>,
      <<"m", "a", "r", "k", "e", "t">>,
      <<"p", "r", "i", "c", "e">>,
      <<"i", "n", "f", "l", "a", "t", "i", "o", "n">>,
      <<"c", "r", "y", "p", "t", "o">>,
      <<"i", "n", "v", "e", "s", "t">>,
      <<"h", "e", "l", "l", "o">>,
      <<"r", "a", "t", "e">> >>

PhrasePicks ==
    { ps \in SeqsUpTo(DOMAIN Phrases, MaxPhrases) :
        \A i \in 1..(Len(ps) - 1) : ps[i] < ps[i + 1] }

PhraseQueries == { joinWords([i \in DOMAIN ps |-> Phrases[ps[i]]]) : ps \in PhrasePicks }

Q_balance == <<"W", "h", "a", "t", " ", "i", "s", " ", "m", "y", " ", "b", "a", "l", "a", "n", "c", "e", "?">>
Q_stress1 == <<"W", "h", "a", "t", " ", "i", "s", " ", "m", "y", " ", "t", "o", "t", "a", "l", " ", "b", "a", "l", "a", "n", "c", "e", " ", "a", "n", "d", " ", "h", "o", "w", " ", "m", "u", "c", "h", " ", "h", "a", "v", "e", " ", "I", " ", "m", "a", "d", "e", "?">>
Q_stress2 == <<"H", "o", "w", " ", "m", "u", "c", "h", " ", "h", "a", "v", "e", " ", "I", " ", "s", "p", "e", "n", "t", " ", "o", "n", " ", "O", "t", "h", "e", "r", " ", "t", "h", "i", "n", "g", "s", "?">>
Q_compare_rev == <<"t", "r", "a", "n", "s", "p", "o", "r", "t", " ", "v", "s", " ", "f", "o", "o", "d">>
Q_compare3 == <<"i", "s", " ", "o", "t", "h", "e", "r", " ", "m", "o", "r", "e", " ", "t", "h", "a", "n", " ", "T", "r", "a", "n", "s", "p", "o", "r", "t", " ", "o", "r", " ", "F", "O", "O", "D">>
Q_spent_month == <<"H", "o", "w", " ", "m", "u", "c", "h", " ", "h", "a", "v", "e", " ", "I", " ", "s", "p", "e", "n", "t", " ", "o", "n", " ", "U", "t", "i", "l", "i", "t", "i", "e", "s", " ", "t", "h", "i", "s", " ", "m", "o", "n", "t", "h", "?">>
Q_spent_today == <<"w", "h", "a", "t", " ", "d", "i", "d", " ", "i", "t", " ", "c", "o", "s", "t", " ", "t", "o", "d", "a", "y">>
Q_spent_yesterday == <<"e", "x", "p", "e", "n", "s", "e", "s", " ", "y", "e", "s", "t", "e", "r", "d", "a", "y", " ", "o", "n", " ", "f", "o", "o", "d">>

Q_spent_mixed == <<"t", "r", "a", "n", "s", "p", "o", "r", "t", " ", "a", "n", "d", " ", "f", "o", "o", "d", " ", "e", "x", "p", "e", "n", "s", "e", " ", "y", "e", "s", "t", "e", "r", "d", "a", "y", " ", "o", "r", " ", "t", "h", "i", "s", " ", "m", "o", "n", "t", "h">>
Q_spent_all3 == <<"c", "o", "s", "t", " ", "t", "h", "i", "s", " ", "m", "o", "n", "t", "h", ",", " ", "y", "e", "s", "t", "e", "r", "d", "a", "y", " ", "a", "n", "d", " ", "t", "o", "d", "a", "y">>

Q_market == <<"I", "s", " ", "t", "h", "e", " ", "s", "t", "o", "c", "k", " ", "m", "a", "r", "k", "e", "t", " ", "u", "p", " ", "T", "O", "D", "A", "Y", "?">>

SampleQueries ==
    { Q_stress1, Q_stress2, Q_compare_rev, Q_compare3,
      Q_spent_month, Q_spent_today, Q_spent_yesterday,
      Q_spent_mixed, Q_spent_all3, Q_market }

D_salary == <<"M", "o", "n", "t", "h", "l", "y", " ", "S", "a", "l", "a", "r", "y">>
D_grocery == <<"G", "r", "o", "c", "e", "r", "y", " ", "R", "u", "n">>
D_electric == <<"E", "l", "e", "c", "t", "r", "i", "c", " ", "B", "i", "l", "l">>
D_freelance == <<"F", "r", "e", "e", "l", "a", "n", "c", "e", " ", "D", "e", "s", "i", "g", "n">>
D_trading == <<"H", "i", "g", "h", " ", "F", "r", "e", "q", "u", "e", "n", "c", "y", " ", "T", "r", "a", "d", "i", "n", "g">>
D_refund == <<"R", "e", "f", "u", "n", "d">>
D_cinema == <<"C", "i", "n", "e", "m", "a">>
D_netflix == <<"N", "e", "t", "f", "l", "i", "x", " ", "S", "u", "b", "s", "c", "r", "i", "p", "t", "i", "o", "n">>
D_gym == <<"G", "y", "m", " ", "S", "U", "B", "S", "C", "R", "I", "P", "T", "I", "O", "N">>
D_rent == <<"R", "e", "n", "t">>
D_bus == <<"B", "u", "s", " ", "p", "a", "s", "s">>

\* new Date() while the assistant answers
Now0 == Instant(4, 1)

\* transactions the assistant is asked about
AIUniverse ==
    { Tx(D_salary,  500000, "income",  Cat_Salary,    Instant(2, 1)),
      Tx(D_salary,  100000, "income",  Cat_Salary,    Instant(4, 0)),
      Tx(D_refund,   10000, "income",  Cat_Food,      Instant(4, 0)),
      Tx(D_grocery,  10000, "expense", Cat_Food,      Instant(4, 0)),
      Tx(D_grocery,  85000, "expense", Cat_Food,      Instant(3, 1)),
      Tx(D_bus,      10000, "expense", Cat_Transport, Instant(3, 0)),
      Tx(D_trading,  10000, "expense", Cat_Other,     Instant(4, 0)),
      Tx(D_trading,      1, "expense", Cat_Other,     Instant(3, 1)),
      Tx(D_trading, 100000, "expense", Cat_Other,     Instant(2, 1)) }

AILists == { withIds(ts) : ts \in SeqsUpTo(AIUniverse, MaxTx) }

\* the seed data of the store, and the empty list
SeedList ==
    withIds(<< Tx(D_salary,    500000, "income",  Cat_Salary,    Instant(2, 1)),
               Tx(D_grocery,    15640, "expense", Cat_Food,      Instant(3, 1)),
               Tx(D_electric,   12050, "expense", Cat_Utilities, Instant(4, 1)),
               Tx(D_freelance,  85000, "income",  Cat_Freelance, Instant(4, 1)) >>)

SampleLists == { <<>>, SeedList }

\* transactions shown on the dashboard
DashboardUniverse ==
    { Tx(D_salary,   100000, "income",  Cat_Salary,        Instant(4, 0)),
      Tx(D_freelance,     1, "income",  Cat_Freelance,     Instant(4, 0)),
      Tx(D_refund,    80000, "income",  Cat_Food,          Instant(4, 0)),
      Tx(D_grocery,   50000, "expense", Cat_Food,          Instant(4, 0)),
      Tx(D_grocery,   50001, "expense", Cat_Food,          Instant(4, 0)),
      Tx(D_cinema,    20000, "expense", Cat_Entertainment, Instant(4, 0)),
      Tx(D_netflix,   20000, "expense", Cat_Entertainment, Instant(4, 0)),
      Tx(D_gym,       20001, "expense", Cat_Other,         Instant(4, 0)),
      Tx(D_trading,       1, "expense", Cat_Other,         Instant(4, 0)),
      Tx(D_rent,      80000, "expense", Cat_Housing,       Instant(4, 0)),
      Tx(D_electric, 100000, "expense", Cat_Utilities,     Instant(4, 0)) }

DashboardLists == { withIds(ts) : ts \in SeqsUpTo(DashboardUniverse, MaxTx) }

-----------------------------------------------------------------------------
(* AuthContext: the id of a user is made from the email address            *)
(*                                                                         *)
(* A base64 text is the sequence of its digits: 0..63 for A-Z a-z 0-9 + /  *)
(* and Pad for the = sign.                                                 *)

Pad == 64

\* the character codes of the characters of the explored addresses
CharCode ==
    [c \in { LowerCaseLetters[k] : k \in 1..26 } |->
        96 + (CHOOSE k \in 1..26 : LowerCaseLetters[k] = c)]
        @@ ("." :> 46) @@ ("@" :> 64)

\* btoa: every three bytes give four digits; a last group of one or two
\* bytes is filled up with = signs
btoa(s) ==
    LET n       == Len(s)
        byte(i) == IF i <= n THEN CharCode[s[i]] ELSE 0
    IN  [k \in 1..(4 * ((n + 2) \div 3)) |->
            LET g  == (k - 1) \div 4
                j  == (k - 1) % 4
                b1 == byte(3 * g + 1)
                b2 == byte(3 * g + 2)
                b3 == byte(3 * g + 3)
            IN  CASE j = 0 -> b1 \div 4
                  [] j = 1 -> (b1 % 4) * 16 + b2 \div 16
                  [] j = 2 -> IF 3 * g + 2 > n THEN Pad ELSE (b2 % 16) * 4 + b3 \div 64
                  [] j = 3 -> IF 3 * g + 3 > n THEN Pad ELSE b3 % 64]

\* .replace(/=/g, '')
removePadding(b) == SelectSeq(b, LAMBDA d : d # Pad)

\* .substring(0, 12)
substring12(b) == SubSeq(b, 1, IF Len(b) < 12 THEN Len(b) ELSE 12)

\* const id = btoa(email).replace(/=/g, '').substring(0, 12)
loginId(email) == substring12(removePadding(btoa(email)))

E_joe_a == <<"j", "o", "e", ".", "s", "m", "i", "t", "h", "@", "a", ".", "i", "o">>
E_joe_b == <<"j", "o", "e", ".", "s", "m", "i", "t", "h", "@", "b", ".", "i", "o">>
E_bob == <<"b", "o", "b", "@", "y", ".", "i", "o">>

\* the name and email typed into the login page
Accounts ==
    { [name |-> "Joe", email |-> E_joe_a],
      [name |-> "Joseph", email |-> E_joe_b],
      [name |-> "Bob", email |-> E_bob] }

-----------------------------------------------------------------------------
(* TransactionService over localStorage                                    *)
(*                                                                         *)
(* An item of localStorage is absent (getItem gives null) or a string: the *)
(* empty string, the JSON text of a value, or text that is not JSON.  A    *)
(* JSON value is an array of transactions, null, or an object.  uuidv4()   *)
(* hands out identifiers that were never handed out before: the n-th call  *)
(* gives n.  The four identifiers of SEED_DATA were drawn when the module  *)
(* was loaded.                                                             *)

\* the ids of the accounts that sign in
UserIds == { loginId(a.email) : a \in Accounts }

\* useState<User | null>(null)
NoUser == [kind |-> "null"]

getStorageKey(userId) == <<"wealthwise_data_", userId>>

StorageKeys == { getStorageKey(u) : u \in UserIds }

NoItem == [kind |-> "null"]
EmptyString == [kind |-> "empty"]
NotJson == [kind |-> "garbage"]

JsArray(items) == [type |-> "array", items |-> items]
JsNull == [type |-> "null"]
JsObject == [type |-> "object"]
JsTransaction(t) == [type |-> "transaction", item |-> t]

\* what a call gives that returns nothing, throws, or was never made
Undefined == [type |-> "undefined"]
Thrown == [type |-> "TypeError"]
NoCall == [type |-> "none"]

\* ChatAssistant is not rendered (nobody is signed in)
NoChat == [mounted |-> FALSE]

\* the first message of the list: the welcome of the assistant
WelcomeMessage == [role |-> "assistant", content |-> "Welcome back"]

\* ChatAssistant as it is mounted by AppContent with the transactions prop:
\* the initial values of its useState calls; awaiting is the await at which
\* handleSendMessage is suspended, sent the query it keeps and promise what
\* its call of generateResponse returned
ChatMounted(prop) ==
    [mounted      |-> TRUE,
     transactions |-> prop,
     messages     |-> <<WelcomeMessage>>,
     inputValue   |-> <<>>,
     isTyping     |-> FALSE,
     isSearching  |-> FALSE,
     awaiting     |-> "nothing",
     sent         |-> <<>>,
     promise      |-> Pending]

\* no tab is inside TransactionService.add
NoTabs == <<>>

JSON_stringify(value) == [kind |-> "json", value |-> value]

\* JSON.parse inside try/catch: the parsed value, or the SyntaxError caught
JSON_parse(data) ==
    IF data.kind = "json" THEN [ok |-> TRUE, value |-> data.value]
    ELSE [ok |-> FALSE, value |-> JsNull]

\* !data
Falsy(data) == data.kind \in {"null", "empty"}

SEED_DATA == SeedList

FirstUuid == Len(SEED_DATA) + 1

\* SEED_DATA.map(t => ({...t, id: uuidv4()}))
seeded(n) == [i \in 1..Len(SEED_DATA) |-> [SEED_DATA[i] EXCEPT !.id = n + i - 1]]

\* the seeded list is returned but never written to localStorage
getAll_seedNotWritten(s, n, userId) ==
    LET key == getStorageKey(userId)
        data == s[key]
    IN  IF Falsy(data)
        THEN [storage  |-> s,
              nextUuid |-> n + Len(SEED_DATA),
              result   |-> JsArray(seeded(n))]
        ELSE IF JSON_parse(data).ok
        THEN [storage |-> s, nextUuid |-> n, result |-> JSON_parse(data).value]
        ELSE [storage |-> s, nextUuid |-> n, result |-> JsArray(<<>>)]

getAll(s, n, userId) ==
    LET key == getStorageKey(userId)
        data == s[key]
    IN  IF Falsy(data)
        THEN [storage  |-> [s EXCEPT ![key] = JSON_stringify(JsArray(seeded(n)))],
              nextUuid |-> n + Len(SEED_DATA),
              result   |-> JsArray(seeded(n))]
        ELSE IF JSON_parse(data).ok
        THEN [storage |-> s, nextUuid |-> n, result |-> JSON_parse(data).value]
        ELSE [storage |-> s, nextUuid |-> n, result |-> JsArray(<<>>)]

\* the identifier is the position the list will have: taken again after a delete
add_countingId(s, n, userId, transaction) ==
    LET got == getAll(s, n, userId)
        newTransaction ==
            [id |-> IF got.result.type = "array" THEN Len(got.result.items) + 1 ELSE 1]
                @@ transaction
    IN  IF got.result.type = "array"
        THEN [storage  |-> [got.storage EXCEPT ![getStorageKey(userId)] =
                               JSON_stringify(JsArray(<<newTransaction>> \o got.result.items))],
              nextUuid |-> got.nextUuid + 1,
              result   |-> JsTransaction(newTransaction)]
        ELSE [storage |-> got.storage, nextUuid |-> got.nextUuid + 1, result |-> Thrown]

\* [newTransaction, ...transactions] throws a TypeError when getAll gave a
\* value that is not iterable; the identifier is drawn before that
add(s, n, userId, transaction) ==
    LET got == getAll(s, n, userId)
        newTransaction == [id |-> got.nextUuid] @@ transaction
    IN  IF got.result.type = "array"
        THEN [storage  |-> [got.storage EXCEPT ![getStorageKey(userId)] =
                               JSON_stringify(JsArray(<<newTransaction>> \o got.result.items))],
              nextUuid |-> got.nextUuid + 1,
              result   |-> JsTransaction(newTransaction)]
        ELSE [storage |-> got.storage, nextUuid |-> got.nextUuid + 1, result |-> Thrown]

\* the test of the filter inverted: the matching transactions are the ones kept
filterNotId_keepMatching(ts, id) == SelectSeq(ts, LAMBDA t : t.id = id)

\* transactions.filter((t) => t.id !== id)
filterNotId(ts, id) == SelectSeq(ts, LAMBDA t : t.id # id)

\* the item removed when the last transaction is deleted, as clear does
delete_removesEmptied(s, n, userId, id) ==
    LET got == getAll(s, n, userId)
    IN  IF got.result.type = "array"
        THEN [storage  |-> [got.storage EXCEPT ![getStorageKey(userId)] =
                               IF filterNotId(got.result.items, id) = <<>>
                               THEN NoItem
                               ELSE JSON_stringify(JsArray(filterNotId(got.result.items, id)))],
              nextUuid |-> got.nextUuid,
              result   |-> Undefined]
        ELSE [storage |-> got.storage, nextUuid |-> got.nextUuid, result |-> Thrown]

\* transactions.filter throws a TypeError when getAll gave null or an object
delete(s, n, userId, id) ==
    LET got == getAll(s, n, userId)
    IN  IF got.result.type = "array"
        THEN [storage  |-> [got.storage EXCEPT ![getStorageKey(userId)] =
                               JSON_stringify(JsArray(filterNotId(got.result.items, id)))],
              nextUuid |-> got.nextUuid,
              result   |-> Undefined]
        ELSE [storage |-> got.storage, nextUuid |-> got.nextUuid, result |-> Thrown]

\* localStorage.removeItem(getStorageKey(userId))
clear(s, userId) == [s EXCEPT ![getStorageKey(userId)] = NoItem]

-----------------------------------------------------------------------------
(* The assistant answering one query *)

InitAI ==
    /\ \/ query \in PhraseQueries /\ transactions \in SampleLists
       \/ query \in SampleQueries /\ transactions \in AILists
    /\ now = Now0
    /\ response = Pending
    /\ financials = Pending
    /\ insights = Pending
    /\ storage = [k \in StorageKeys |-> NoItem]
    /\ nextUuid = FirstUuid
    /\ user = NoUser
    /\ errors = {}
    /\ returned = NoCall
    /\ session = NoItem
    /\ chat = NoChat
    /\ tabs = NoTabs
    /\ mounted = TRUE

\* await AIService.generateResponse(query, transactions)
GenerateResponse ==
    /\ response = Pending
    /\ response' = generateResponse(query, transactions, now)
    /\ UNCHANGED <<query, transactions, now, financials, insights>>
    /\ UNCHANGED appVars

NextAI == GenerateResponse

SpecAI == InitAI /\ [][NextAI]_vars

-----------------------------------------------------------------------------
(* The dashboard over one transaction list, with the assistant asked for   *)
(* the balance of the same list                                            *)

InitDashboard ==
    /\ query = Q_balance
    /\ transactions \in DashboardLists
    /\ now = Now0
    /\ response = Pending
    /\ financials = Pending
    /\ insights = Pending
    /\ storage = [k \in StorageKeys |-> NoItem]
    /\ nextUuid = FirstUuid
    /\ user = NoUser
    /\ errors = {}
    /\ returned = NoCall
    /\ session = NoItem
    /\ chat = NoChat
    /\ tabs = NoTabs
    /\ mounted = TRUE

\* const { income, expense, balance } = calculateFinancials()
CalculateFinancials ==
    /\ financials = Pending
    /\ financials' = [kind |-> "returned", value |-> calculateFinancials(transactions)]
    /\ UNCHANGED <<query, transactions, now, response, insights>>
    /\ UNCHANGED appVars

\* the call sorts the list it was handed before it reads it
GenerateInsights_sortsInPlace ==
    /\ insights = Pending
    /\ insights' = [kind |-> "returned", value |-> generateInsights(transactions)]
    /\ transactions' = [i \in 1..Len(transactions) |->
                            transactions[Len(transactions) + 1 - i]]
    /\ UNCHANGED <<query, now, response, financials>>
    /\ UNCHANGED appVars

\* setInsights(InsightService.generateInsights(transactions))
GenerateInsights ==
    /\ insights = Pending
    /\ insights' = [kind |-> "returned", value |-> generateInsights(transactions)]
    /\ UNCHANGED <<query, transactions, now, response, financials>>
    /\ UNCHANGED appVars

NextDashboard == CalculateFinancials \/ GenerateInsights \/ GenerateResponse

SpecDashboard == InitDashboard /\ [][NextDashboard]_vars

-----------------------------------------------------------------------------
(* The transaction store called directly: any sequence of getAll, add,     *)
(* delete and clear, for two users, starting from an empty localStorage    *)

\* what callers hand to add
StoreUniverse ==
    { Tx(D_cinema, 1200, "expense", Cat_Entertainment, Instant(4, 1)),
      Tx(D_refund, 10000, "income", Cat_Other, Instant(1, 0)) }

InitStore ==
    /\ query = Q_balance
    /\ transactions = <<>>
    /\ now = Now0
    /\ response = Pending
    /\ financials = Pending
    /\ insights = Pending
    /\ storage = [k \in StorageKeys |-> NoItem]
    /\ nextUuid = FirstUuid
    /\ user = NoUser
    /\ errors = {}
    /\ returned = NoCall
    /\ session = NoItem
    /\ chat = NoChat
    /\ tabs = NoTabs
    /\ mounted = TRUE

\* TransactionService.getAll(userId)
GetAll(userId) ==
    LET got == getAll(storage, nextUuid, userId)
    IN  /\ UNCHANGED clientVars
        /\ got.nextUuid <= MaxUuid + 1
        /\ storage' = got.storage
        /\ nextUuid' = got.nextUuid
        /\ returned' = got.result
        /\ UNCHANGED <<query, transactions, now, response, financials, insights, user, errors>>

\* TransactionService.add(userId, transaction)
Add(userId, transaction) ==
    LET did == add(storage, nextUuid, userId, transaction)
    IN  /\ UNCHANGED clientVars
        /\ did.nextUuid <= MaxUuid + 1
        /\ storage' = did.storage
        /\ nextUuid' = did.nextUuid
        /\ returned' = did.result
        /\ UNCHANGED <<query, transactions, now, response, financials, insights,
                       user, errors>>

\* TransactionService.delete(userId, id)
Delete(userId, id) ==
    LET did == delete(storage, nextUuid, userId, id)
    IN  /\ UNCHANGED clientVars
        /\ did.nextUuid <= MaxUuid + 1
        /\ storage' = did.storage
        /\ nextUuid' = did.nextUuid
        /\ returned' = did.result
        /\ UNCHANGED <<query, transactions, now, response, financials, insights,
                       user, errors>>

\* TransactionService.clear(userId)
Clear(userId) ==
    /\ UNCHANGED clientVars
    /\ storage' = clear(storage, userId)
    /\ returned' = Undefined
    /\ UNCHANGED <<query, transactions, now, response, financials, insights,
                   nextUuid, user, errors>>

\* the ids callers hand to delete: those of the transactions stored under
\* any key, and one that no stored transaction has (the first id of SEED_DATA)
DeleteIds ==
    { 1 } \cup UNION { IF storage[k].kind = "json" /\ storage[k].value.type = "array"
                       THEN { storage[k].value.items[i].id :
                                i \in 1..Len(storage[k].value.items) }
                       ELSE {} : k \in StorageKeys }

NextStore ==
    \E userId \in UserIds :
        \/ GetAll(userId)
        \/ \E transaction \in StoreUniverse : Add(userId, transaction)
        \/ \E id \in DeleteIds : Delete(userId, id)
        \/ Clear(userId)

SpecStore == InitStore /\ [][NextStore]_vars

-----------------------------------------------------------------------------
(* ChatAssistant: the component mounted with a transactions prop, the user *)
(* typing and sending, the call of generateResponse settling and the       *)
(* one-second timer running out                                            *)

MaxSends == 2

\* /rate|stock|market|price|inflation/
SEARCH_PATTERN ==
    { <<"r", "a", "t", "e">>,
      <<"s", "t", "o", "c", "k">>,
      <<"m", "a", "r", "k", "e", "t">>,
      <<"p", "r", "i", "c", "e">>,
      <<"i", "n", "f", "l", "a", "t", "i", "o", "n">> }

\* String.prototype.trim over the explored characters
RECURSIVE trimStart(_)
trimStart(s) == IF s # <<>> /\ s[1] = " " THEN trimStart(Tail(s)) ELSE s

RECURSIVE trimEnd(_)
trimEnd(s) ==
    IF s # <<>> /\ s[Len(s)] = " " THEN trimEnd(SubSeq(s, 1, Len(s) - 1)) ELSE s

trim(s) == trimEnd(trimStart(s))

Q_hi == <<" ", "h", "i", " ">>

\* what is typed into the input of the assistant
ChatInputs == { <<>>, <<" ", " ">>, Q_hi, Q_balance, Q_market }

\* the values the transactions prop takes: what getAll returned when
\* AppContent rendered
ChatProps == { JsArray(<<>>), JsArray(SeedList), JsNull }

\* AIService.generateResponse(query, transactions) as the component calls it:
\* transactions.filter throws inside the async function when the prop is no
\* array, and the promise is rejected
callGenerateResponse(rawQuery, prop, at) ==
    IF prop.type = "array"
    THEN generateResponse(rawQuery, prop.items, at)
    ELSE Rejected("TypeError")

\* the messages of a role in a list
UserMessages(ms) == SelectSeq(ms, LAMBDA m : m.role = "user")

InitChat ==
    /\ query = Q_balance
    /\ transactions = <<>>
    /\ now = Now0
    /\ response = Pending
    /\ financials = Pending
    /\ insights = Pending
    /\ storage = [k \in StorageKeys |-> NoItem]
    /\ nextUuid = FirstUuid
    /\ \E account \in Accounts :
            /\ user = [id    |-> loginId(account.email),
                       name  |-> account.name,
                       email |-> account.email]
            /\ session = JSON_stringify(user)
    /\ errors = {}
    /\ returned = NoCall
    /\ \E prop \in ChatProps : chat = ChatMounted(prop)
    /\ tabs = NoTabs
    /\ mounted = TRUE

\* onChange={(e) => setInputValue(e.target.value)}; the input is disabled
\* while isTyping
TypeInput(text) ==
    /\ chat.mounted
    /\ ~chat.isTyping
    /\ chat' = [chat EXCEPT !.inputValue = text]
    /\ UNCHANGED <<query, transactions, now, response, financials, insights,
                   storage, nextUuid, user, errors, returned, session, tabs, mounted>>

\* the finally block left out when the call was rejected
ResponseSettles_noFinally ==
    /\ chat.mounted
    /\ chat.awaiting = "response"
    /\ chat' = IF chat.promise.kind = "resolved"
               THEN [chat EXCEPT !.awaiting = "delay"]
               ELSE [chat EXCEPT !.awaiting = "nothing"]
    /\ UNCHANGED <<query, transactions, now, response, financials, insights,
                   storage, nextUuid, user, errors, returned, session, tabs, mounted>>

\* handleSendMessage resumed after await AIService.generateResponse: on a
\* value it starts the timer, on a rejection it runs catch and finally
ResponseSettles ==
    /\ chat.mounted
    /\ chat.awaiting = "response"
    /\ chat' = IF chat.promise.kind = "resolved"
               THEN [chat EXCEPT !.awaiting = "delay"]
               ELSE [chat EXCEPT !.awaiting = "nothing",
                                 !.isTyping = FALSE,
                                 !.isSearching = FALSE]
    /\ UNCHANGED <<query, transactions, now, response, financials, insights,
                   storage, nextUuid, user, errors, returned, session, tabs, mounted>>

\* handleSendMessage resumed after the timer: the assistant's message is
\* appended, then finally
DelayElapses ==
    /\ chat.mounted
    /\ chat.awaiting = "delay"
    /\ chat' = [chat EXCEPT !.awaiting = "nothing",
                            !.messages = Append(@, [role    |-> "assistant",
                                                    content |-> chat.promise]),
                            !.isTyping = FALSE,
                            !.isSearching = FALSE]
    /\ UNCHANGED <<query, transactions, now, response, financials, insights,
                   storage, nextUuid, user, errors, returned, session, tabs, mounted>>

\* handleSendMessage up to its first await; the form is submitted from the
\* input or the button, both disabled while isTyping
HandleSendMessage ==
    /\ chat.mounted
    /\ ~chat.isTyping
    /\ IF trim(chat.inputValue) = <<>>
       THEN UNCHANGED vars
       ELSE /\ Len(UserMessages(chat.messages)) < MaxSends
            /\ chat' = [chat EXCEPT
                    !.messages = Append(@, [role |-> "user", content |-> chat.inputValue]),
                    !.sent = chat.inputValue,
                    !.inputValue = <<>>,
                    !.isTyping = TRUE,
                    !.isSearching =
                        \E p \in SEARCH_PATTERN : includes(toLowerCase(chat.inputValue), p),
                    !.awaiting = "response",
                    !.promise =
                        callGenerateResponse(chat.inputValue, chat.transactions, now)]
            /\ UNCHANGED <<query, transactions, now, response, financials, insights,
                           storage, nextUuid, user, errors, returned, session, tabs,
                           mounted>>

NextChat ==
    \/ \E text \in ChatInputs : TypeInput(text)
    \/ HandleSendMessage
    \/ ResponseSettles
    \/ DelayElapses

SpecChat == InitChat /\ [][NextChat]_vars

\* the event loop runs every continuation that is ready: the one of a
\* settled promise and the one of a timer that ran out
FairSpecChat ==
    /\ SpecChat
    /\ WF_vars(ResponseSettles)
    /\ WF_vars(DelayElapses)

-----------------------------------------------------------------------------
(* Two tabs of one user inside TransactionService.add.  localStorage is    *)
(* shared by the tabs of an origin and nothing locks it between the        *)
(* getItem of getAll and the setItem of add, so the steps of the two tabs  *)
(* interleave.                                                             *)

\* a tab that is not inside add; added lists the ids of the transactions
\* its calls of add have returned
IdleTab(userId, added) ==
    [pc |-> "idle", userId |-> userId, added |-> added]

InitTabs ==
    /\ query = Q_balance
    /\ transactions = <<>>
    /\ now = Now0
    /\ response = Pending
    /\ financials = Pending
    /\ insights = Pending
    /\ storage = [k \in StorageKeys |-> NoItem]
    /\ nextUuid = FirstUuid
    /\ user = NoUser
    /\ errors = {}
    /\ returned = NoCall
    /\ session = NoItem
    /\ chat = NoChat
    /\ \E userId \in UserIds : tabs = [i \in 1..2 |-> IdleTab(userId, <<>>)]
    /\ mounted = TRUE

\* add, first half: const transactions = TransactionService.getAll(userId);
\* const newTransaction = {...transaction, id: uuidv4()}
TabRead(i, transaction) ==
    LET got == getAll(storage, nextUuid, tabs[i].userId)
    IN  /\ tabs[i].pc = "idle"
        /\ Len(tabs[i].added) < MaxAdded
        /\ storage' = got.storage
        /\ nextUuid' = got.nextUuid + 1
        /\ tabs' = [tabs EXCEPT ![i] =
                        [pc             |-> "read",
                         userId         |-> tabs[i].userId,
                         added          |-> tabs[i].added,
                         transactions   |-> got.result,
                         newTransaction |-> [id |-> got.nextUuid] @@ transaction]]
        /\ UNCHANGED <<query, transactions, now, response, financials, insights,
                       user, errors, returned, session, chat, mounted>>

\* add, second half: const updated = [newTransaction, ...transactions];
\* localStorage.setItem(key, JSON.stringify(updated)); return newTransaction
TabWrite(i) ==
    /\ tabs[i].pc = "read"
    /\ IF tabs[i].transactions.type = "array"
       THEN /\ storage' = [storage EXCEPT ![getStorageKey(tabs[i].userId)] =
                              JSON_stringify(JsArray(<<tabs[i].newTransaction>>
                                                      \o tabs[i].transactions.items))]
            /\ returned' = JsTransaction(tabs[i].newTransaction)
            /\ tabs' = [tabs EXCEPT ![i] =
                            IdleTab(tabs[i].userId,
                                    Append(tabs[i].added, tabs[i].newTransaction.id))]
       ELSE /\ returned' = Thrown
            /\ tabs' = [tabs EXCEPT ![i] = IdleTab(tabs[i].userId, tabs[i].added)]
            /\ UNCHANGED storage
    /\ UNCHANGED <<query, transactions, now, response, financials, insights,
                   nextUuid, user, errors, session, chat, mounted>>

NextTabs ==
    \E i \in 1..2 :
        \/ \E transaction \in StoreUniverse : TabRead(i, transaction)
        \/ TabWrite(i)

SpecTabs == InitTabs /\ [][NextTabs]_vars

-----------------------------------------------------------------------------
(* The transaction store next to other writers of localStorage: the item   *)
(* under a wealthwise_data_ key can be overwritten from outside the        *)
(* service (another script of the origin, the browser's storage inspector) *)
(* and is then read, filtered or removed by the service                    *)

\* strings that are not the JSON text of a list
ForeignItems == { EmptyString, NotJson, JSON_stringify(JsNull), JSON_stringify(JsObject) }

\* localStorage.setItem(key, item) done by someone else
ForeignWrite(userId, item) ==
    /\ UNCHANGED clientVars
    /\ storage' = [storage EXCEPT ![getStorageKey(userId)] = item]
    /\ UNCHANGED <<query, transactions, now, response, financials, insights,
                   nextUuid, user, errors, returned>>

NextForeign ==
    \E userId \in UserIds :
        \/ GetAll(userId)
        \/ \E id \in DeleteIds : Delete(userId, id)
        \/ Clear(userId)
        \/ \E item \in ForeignItems : ForeignWrite(userId, item)

SpecForeign == InitStore /\ [][NextForeign]_vars

-----------------------------------------------------------------------------
(* The application: sign in, sign out, the dashboard's add-transaction     *)
(* form and delete buttons, and the clock                                  *)

\* the lower bound of the amount is 0 instead of 0.01: amount 0 passes
safeParse_zeroAllowed(formData) ==
    (IF Len(formData.description) < 2 THEN {"description"} ELSE {})
        \cup (IF formData.amount < 0 THEN {"amount"} ELSE {})
        \cup (IF formData.type \notin {"income", "expense"} THEN {"type"} ELSE {})
        \cup (IF Len(formData.category) < 1 THEN {"category"} ELSE {})

\* transactionSchema.safeParse(formData): the fields with an error; amounts
\* are cents, so min(0.01) is amount >= 1
safeParse(formData) ==
    (IF Len(formData.description) < 2 THEN {"description"} ELSE {})
        \cup (IF formData.amount < 1 THEN {"amount"} ELSE {})
        \cup (IF formData.type \notin {"income", "expense"} THEN {"type"} ELSE {})
        \cup (IF Len(formData.category) < 1 THEN {"category"} ELSE {})

\* <option value=...> of the two selects of the form
TypeOptions == {"expense", "income"}

CategoryOptions ==
    { Cat_Food, Cat_Housing, Cat_Transport, Cat_Utilities, Cat_Entertainment,
      Cat_Salary, Cat_Freelance, Cat_Shopping, Cat_Health, Cat_Other }

\* type TransactionCategory
TransactionCategory ==
    { Cat_Food, Cat_Housing, Cat_Transport, Cat_Utilities, Cat_Entertainment,
      Cat_Salary, Cat_Freelance, Cat_Shopping, Cat_Health, Cat_Other }

Form(desc, amt, ty, cat) ==
    [description |-> desc, amount |-> amt, type |-> ty, category |-> cat]

\* the form contents submitted: two that pass validation, and two that fail
\* it (a negative amount; amount 0)
FormInputs ==
    { formData \in { Form(D_cinema, 1200, "expense", Cat_Entertainment),
                     Form(D_refund, 1, "income", Cat_Other),
                     Form(D_rent, -500, "income", Cat_Salary),
                     Form(D_rent, 0, "expense", Cat_Housing) } :
        formData.type \in TypeOptions /\ formData.category \in CategoryOptions }

\* the transactions added so far: the identifiers drawn, less those of
\* SEED_DATA and of the keys that were seeded
AddedSoFar ==
    nextUuid - FirstUuid
        - Len(SEED_DATA) * Cardinality({ k \in StorageKeys : storage[k] # NoItem })

\* the transactions deleted so far: the identifiers handed to stored
\* transactions, less the transactions still stored
RECURSIVE StoredCount(_)
StoredCount(keys) ==
    IF keys = {} THEN 0
    ELSE LET k == CHOOSE key \in keys : TRUE
         IN  (IF storage[k].kind = "json" /\ storage[k].value.type = "array"
              THEN Len(storage[k].value.items) ELSE 0) + StoredCount(keys \ {k})

DeletedSoFar == nextUuid - FirstUuid - StoredCount(StorageKeys)

Init ==
    /\ query = Q_balance
    /\ transactions = <<>>
    /\ now = Now0
    /\ response = Pending
    /\ financials = Pending
    /\ insights = Pending
    /\ storage = [k \in StorageKeys |-> NoItem]
    /\ nextUuid = FirstUuid
    /\ user = NoUser
    /\ errors = {}
    /\ returned = NoCall
    /\ session = NoItem
    /\ chat = NoChat
    /\ tabs = NoTabs
    /\ mounted = TRUE

\* login(name, email), then AppContent renders (getAll for the assistant) and
\* the Dashboard mounts and runs its initial-load effect (loadData)
Login(account) ==
    LET newUser  == [id    |-> loginId(account.email),
                     name  |-> account.name,
                     email |-> account.email]
        rendered == getAll(storage, nextUuid, newUser.id)
        loaded   == getAll(rendered.storage, rendered.nextUuid, newUser.id)
    IN  /\ mounted
        /\ user = NoUser
        /\ user' = newUser
        /\ session' = JSON_stringify(newUser)
        /\ chat' = ChatMounted(rendered.result)
        /\ storage' = loaded.storage
        /\ nextUuid' = loaded.nextUuid
        /\ returned' = loaded.result
        /\ transactions' = IF loaded.result.type = "array" THEN loaded.result.items
                           ELSE transactions
        /\ errors' = {}
        /\ UNCHANGED <<query, now, response, financials, insights, tabs, mounted>>

\* logout(): AppContent shows the login page, the Dashboard state is dropped
Logout ==
    /\ user # NoUser
    /\ user' = NoUser
    /\ session' = NoItem
    /\ chat' = NoChat
    /\ transactions' = <<>>
    /\ errors' = {}
    /\ UNCHANGED <<query, now, response, financials, insights, storage, nextUuid,
                   returned, tabs, mounted>>

\* handleAddTransaction: validate, TransactionService.add with the date
\* new Date() gives, loadData
HandleAddTransaction(formData, at) ==
    LET added  == add(storage, nextUuid, user.id,
                      [description |-> formData.description,
                       amount      |-> formData.amount,
                       type        |-> formData.type,
                       category    |-> formData.category,
                       date        |-> at])
        loaded == getAll(added.storage, added.nextUuid, user.id)
    IN  /\ UNCHANGED clientVars
        /\ user # NoUser
        /\ IF safeParse(formData) # {}
           THEN /\ errors' = safeParse(formData)
                /\ UNCHANGED <<query, transactions, now, response, financials, insights,
                               storage, nextUuid, user, returned>>
           ELSE /\ AddedSoFar < MaxAdded
                /\ now' = at
                /\ storage' = loaded.storage
                /\ nextUuid' = loaded.nextUuid
                /\ returned' = IF added.result = Thrown THEN Thrown ELSE loaded.result
                /\ transactions' = IF added.result = Thrown \/ loaded.result.type # "array"
                                   THEN transactions ELSE loaded.result.items
                /\ UNCHANGED <<query, response, financials, insights, user, errors>>

\* handleDelete(id) from the row of a listed transaction, the confirm dialog
\* answered with OK or Cancel: TransactionService.delete, loadData
HandleDelete(id, confirmed) ==
    LET deleted == delete(storage, nextUuid, user.id, id)
        loaded  == getAll(deleted.storage, deleted.nextUuid, user.id)
    IN  /\ UNCHANGED clientVars
        /\ user # NoUser
        /\ \E i \in 1..Len(transactions) : transactions[i].id = id
        /\ DeletedSoFar < MaxDeleted
        /\ IF confirmed /\ deleted.result # Thrown
           THEN /\ storage' = loaded.storage
                /\ nextUuid' = loaded.nextUuid
                /\ returned' = loaded.result
                /\ transactions' = loaded.result.items
                /\ UNCHANGED <<query, now, response, financials, insights, user, errors>>
           ELSE UNCHANGED vars

\* what new Date() can give when a handler reads the clock: the instant of
\* the previous reading, or the start of the next day
ClockReadings ==
    { now } \cup (IF now.day < MaxDay THEN { Instant(now.day + 1, 0) } ELSE {})

Next ==
    \/ \E account \in Accounts : Login(account)
    \/ Logout
    \/ \E formData \in FormInputs : \E at \in ClockReadings :
            HandleAddTransaction(formData, at)
    \/ \E id \in DeleteIds : \E confirmed \in BOOLEAN : HandleDelete(id, confirmed)

Spec == Init /\ [][Next]_vars

-----------------------------------------------------------------------------
(* The store over the sessions of its users: between login and logout the  *)
(* service is called with the id of the user signed in                     *)

NextSession ==
    \/ \E account \in Accounts :
            /\ getAll(storage, nextUuid, loginId(account.email)).nextUuid <= MaxUuid + 1
            /\ Login(account)
    \/ Logout
    \/ user # NoUser /\ GetAll(user.id)
    \/ user # NoUser /\ \E id \in DeleteIds : Delete(user.id, id)
    \/ user # NoUser /\ Clear(user.id)

SpecSession == Init /\ [][NextSession]_vars

-----------------------------------------------------------------------------
(* AuthProvider from its first render: the mount effect reads the session  *)
(* item a former visit left, then login, logout and deletions on the       *)
(* dashboard follow in any order                                           *)

\* what localStorage can hold under wealthwise_current_user when the page
\* is opened: nothing, the user of a former login, the text null, the empty
\* string, or text that is not JSON
SessionItems ==
    { NoItem, EmptyString, NotJson, JSON_stringify(JsNull) }
        \cup { JSON_stringify([id    |-> loginId(a.email),
                               name  |-> a.name,
                               email |-> a.email]) : a \in Accounts }

InitAuth ==
    /\ query = Q_balance
    /\ transactions = <<>>
    /\ now = Now0
    /\ response = Pending
    /\ financials = Pending
    /\ insights = Pending
    /\ storage = [k \in StorageKeys |-> NoItem]
    /\ nextUuid = FirstUuid
    /\ user = NoUser
    /\ errors = {}
    /\ returned = NoCall
    /\ session \in SessionItems
    /\ chat = NoChat
    /\ tabs = NoTabs
    /\ mounted = FALSE

\* the catch block left empty: the item that failed to parse stays
Mount_keepsUnparsable ==
    LET parsed   == JSON_parse(session)
        restored == ~Falsy(session) /\ parsed.ok /\ parsed.value # JsNull
        rendered == getAll(storage, nextUuid, parsed.value.id)
        loaded   == getAll(rendered.storage, rendered.nextUuid, parsed.value.id)
    IN  /\ ~mounted
        /\ mounted' = TRUE
        /\ IF restored
           THEN /\ user' = parsed.value
                /\ chat' = ChatMounted(rendered.result)
                /\ storage' = loaded.storage
                /\ nextUuid' = loaded.nextUuid
                /\ returned' = loaded.result
                /\ transactions' = IF loaded.result.type = "array"
                                   THEN loaded.result.items ELSE transactions
                /\ UNCHANGED session
           ELSE UNCHANGED <<user, chat, storage, nextUuid, returned, transactions, session>>
        /\ UNCHANGED <<query, now, response, financials, insights, errors, tabs>>

\* the effect of AuthProvider after the first render: a stored session that
\* parses is given to setUser (AppContent then renders the Dashboard and the
\* assistant, as after login), one that does not parse is removed
Mount ==
    LET parsed   == JSON_parse(session)
        restored == ~Falsy(session) /\ parsed.ok /\ parsed.value # JsNull
        rendered == getAll(storage, nextUuid, parsed.value.id)
        loaded   == getAll(rendered.storage, rendered.nextUuid, parsed.value.id)
    IN  /\ ~mounted
        /\ mounted' = TRUE
        /\ IF restored
           THEN /\ user' = parsed.value
                /\ chat' = ChatMounted(rendered.result)
                /\ storage' = loaded.storage
                /\ nextUuid' = loaded.nextUuid
                /\ returned' = loaded.result
                /\ transactions' = IF loaded.result.type = "array"
                                   THEN loaded.result.items ELSE transactions
                /\ UNCHANGED session
           ELSE /\ session' = IF ~Falsy(session) /\ ~parsed.ok THEN NoItem ELSE session
                /\ UNCHANGED <<user, chat, storage, nextUuid, returned, transactions>>
        /\ UNCHANGED <<query, now, response, financials, insights, errors, tabs>>

NextAuth ==
    \/ Mount
    \/ \E account \in Accounts : Login(account)
    \/ Logout
    \/ \E id \in DeleteIds : \E confirmed \in BOOLEAN : HandleDelete(id, confirmed)

SpecAuth == InitAuth /\ [][NextAuth]_vars

-----------------------------------------------------------------------------
(* Properties: vocabulary shared by the statements below *)

\* the text s with every upper-case letter replaced by its lower-case form
CaseFolded(s) ==
    [i \in 1..Len(s) |->
        IF \E l \in DOMAIN UpperOf : UpperOf[l] = s[i]
        THEN CHOOSE l \in DOMAIN UpperOf : UpperOf[l] = s[i]
        ELSE s[i]]

\* the word kw occurs in the text s
Occurs(kw, s) ==
    \E i \in 0..(Len(s) - Len(kw)) :
        /\ s[i + 1] = kw[1]
        /\ \A j \in 2..Len(kw) : s[i + j] = kw[j]

RECURSIVE AmountOver(_)
AmountOver(I) ==
    IF I = {} THEN 0
    ELSE LET i == CHOOSE x \in I : TRUE
         IN  transactions[i].amount + AmountOver(I \ {i})

IncomeIndexes == { i \in DOMAIN transactions : transactions[i].type = "income" }
ExpenseIndexes == { i \in DOMAIN transactions : transactions[i].type = "expense" }
IncomeTotal == AmountOver(IncomeIndexes)
ExpenseTotal == AmountOver(ExpenseIndexes)

Answered == response.kind = "resolved"
AnsweredWith(template) == Answered /\ response.body.template = template

\* the triggers of the intents on a lower-cased query text q
StatusTrigger(q) ==
    \E kw \in {KW_balance, KW_status, KW_savings_rate, KW_net_worth} : Occurs(kw, q)

MentionedIndexes(q) == { c \in DOMAIN categories : Occurs(categories[c], q) }

ComparisonTrigger(q) ==
    /\ \E kw \in {KW_vs, KW_compare, KW_more_than} : Occurs(kw, q)
    /\ Cardinality(MentionedIndexes(q)) >= 2

SpendingTrigger(q) ==
    \E kw \in {KW_spent, KW_expense, KW_cost} : Occurs(kw, q)

MarketTrigger(q) ==
    /\ \E kw \in MARKET_PATTERN : Occurs(kw, q)
    /\ ~Occurs(KW_savings_rate, q)

\* expense total of the category with index c of the fixed category list
CategoryTotal(c) ==
    AmountOver({ i \in ExpenseIndexes :
                    CaseFolded(transactions[i].category) = categories[c] })

-----------------------------------------------------------------------------
\* C1: generateResponse answers with the template of the earliest intent, in
\* the order status, comparison, spending, market, fallback, whose trigger
\* matches the lower-cased query; a query with "balance" that also satisfies
\* the comparison trigger gets the status (balance) response.
C1_FirstMatchWins ==
    response.kind # "pending" =>
        LET q == CaseFolded(query)
            expected ==
                IF StatusTrigger(q) THEN "Executive Financial Summary"
                ELSE IF ComparisonTrigger(q) THEN "Category Comparison Report"
                ELSE IF SpendingTrigger(q) THEN "Tactical Spending Analysis"
                ELSE IF MarketTrigger(q) THEN "Market Intelligence Report"
                ELSE "WealthWise Intelligence Console"
        IN  /\ AnsweredWith(expected)
            /\ Occurs(KW_balance, q) /\ ComparisonTrigger(q)
                  => AnsweredWith("Executive Financial Summary")

C1_Witness ==
    /\ AnsweredWith("Executive Financial Summary")
    /\ Occurs(KW_balance, CaseFolded(query))
    /\ ComparisonTrigger(CaseFolded(query))

\* C2: a query whose lower-cased text contains "savings rate" is never
\* answered with the market-intelligence report, also when a market keyword
\* occurs in it.
C2_SavingsRateNeverMarket ==
    response.kind # "pending" =>
        (Occurs(KW_savings_rate, CaseFolded(query))
            => ~AnsweredWith("Market Intelligence Report"))

\* "Savings Rate" typed with capitals, next to a market keyword
C2_Witness ==
    /\ AnsweredWith("Executive Financial Summary")
    /\ Occurs(KW_savings_rate, CaseFolded(query))
    /\ ~Occurs(KW_savings_rate, query)
    /\ \E kw \in MARKET_PATTERN : Occurs(kw, query)

\* C3: the winner of a comparison has a maximal expense total among the
\* mentioned categories, and among several maximal ones it is the first of the
\* fixed category list, whatever the order of the names in the query.
C3_WinnerIsFirstMaximal ==
    AnsweredWith("Category Comparison Report") =>
        LET mentioned == MentionedIndexes(CaseFolded(query))
        IN  \E w \in mentioned :
                /\ response.body.winner = toUpperCase(categories[w])
                /\ \A c \in mentioned : CategoryTotal(c) <= CategoryTotal(w)
                /\ \A c \in mentioned : CategoryTotal(c) = CategoryTotal(w) => w <= c

\* transport is named before food in the query, both have the same positive
\* total, and food wins
C3_Witness ==
    /\ query = Q_compare_rev
    /\ AnsweredWith("Category Comparison Report")
    /\ CategoryTotal(1) > 0
    /\ CategoryTotal(1) = CategoryTotal(3)
    /\ response.body.winner = toUpperCase(categories[1])

\* C4: the balance of the dashboard (calculateFinancials) and the balance of
\* the assistant (totalBalance, shown in the status report) both are the sum of
\* the income amounts minus the sum of the expense amounts of the list.
C4_BalanceIsIncomeMinusExpense ==
    /\ financials.kind = "returned" =>
          /\ financials.value.income = IncomeTotal
          /\ financials.value.expense = ExpenseTotal
          /\ financials.value.balance = IncomeTotal - ExpenseTotal
    /\ AnsweredWith("Executive Financial Summary") =>
          response.body.balance = formatCurrency(IncomeTotal - ExpenseTotal)
    /\ financials.kind = "returned" /\ AnsweredWith("Executive Financial Summary") =>
          response.body.balance = formatCurrency(financials.value.balance)

C4_Witness ==
    /\ financials.kind = "returned"
    /\ AnsweredWith("Executive Financial Summary")
    /\ IncomeTotal > 0
    /\ ExpenseTotal > IncomeTotal

\* C5: generateInsights returns at most 3 strings, and none for the empty list.
C5_AtMostThreeInsights ==
    insights.kind = "returned" =>
        /\ Len(insights.value) <= 3
        /\ transactions = <<>> => insights.value = <<>>

C5_Witness ==
    /\ insights.kind = "returned"
    /\ Len(insights.value) = 3

SavingsStrings == {INSIGHT_WARNING, INSIGHT_LOW_SAVINGS, INSIGHT_HEALTHY}

Emitted(s) == \E i \in DOMAIN insights.value : insights.value[i] = s

\* C6: the savings-rate rule contributes at most one string: the warning when
\* expense > income; else the low-savings string when income > 0 and
\* expense > 0.8 * income; else the healthy string when income > 0; else
\* nothing, and then income and expense are both 0.  expense = income > 0 gives
\* low-savings and expense = 0.8 * income gives healthy.
C6_SavingsRateRule ==
    insights.kind = "returned" =>
        LET e == ExpenseTotal
            i == IncomeTotal
            contributed == SelectSeq(insights.value, LAMBDA s : s \in SavingsStrings)
        IN  /\ Len(contributed) <= 1
            /\ e > i => contributed = <<INSIGHT_WARNING>>
            /\ e <= i /\ i > 0 /\ 10 * e > 8 * i => contributed = <<INSIGHT_LOW_SAVINGS>>
            /\ e <= i /\ i > 0 /\ 10 * e <= 8 * i => contributed = <<INSIGHT_HEALTHY>>
            /\ e <= i /\ i <= 0 => contributed = <<>> /\ i = 0 /\ e = 0
            /\ e = i /\ i > 0 => contributed = <<INSIGHT_LOW_SAVINGS>>
            /\ 10 * e = 8 * i /\ i > 0 => contributed = <<INSIGHT_HEALTHY>>

\* expense is exactly 80% of a positive income
C6_Witness ==
    /\ insights.kind = "returned"
    /\ IncomeTotal > 0
    /\ 10 * ExpenseTotal = 8 * IncomeTotal
    /\ Emitted(INSIGHT_HEALTHY)

FoodExpenseTotal ==
    AmountOver({ i \in ExpenseIndexes : transactions[i].category = Cat_Food })

\* C7: the food warning is emitted exactly when the expenses of category
\* "Food" sum to more than 500; income in category Food does not count and a
\* total of exactly 500 does not trigger it.
C7_FoodWarning ==
    insights.kind = "returned" =>
        (Emitted(INSIGHT_FOOD) <=> FoodExpenseTotal > 50000)

\* Food expenses of exactly 500 next to a Food income: no warning
C7_Witness ==
    /\ insights.kind = "returned"
    /\ FoodExpenseTotal = 50000
    /\ \E i \in IncomeIndexes : transactions[i].category = Cat_Food
    /\ ~Emitted(INSIGHT_FOOD)

SubscriptionIndexes ==
    { i \in ExpenseIndexes :
        \/ transactions[i].category = Cat_Entertainment
        \/ Occurs(KW_subscription, CaseFolded(transactions[i].description)) }

\* C8: the subscription warning is emitted exactly when the expenses that are
\* of category "Entertainment" or have "subscription" (any letter case) in the
\* description sum to more than 200, each transaction counted once.
C8_SubscriptionWarning ==
    insights.kind = "returned" =>
        (Emitted(INSIGHT_SUBSCRIPTIONS) <=> AmountOver(SubscriptionIndexes) > 20000)

\* an Entertainment expense whose description says "Subscription" brings the
\* total to exactly 200 when counted once: no warning
C8_Witness ==
    /\ insights.kind = "returned"
    /\ \E i \in ExpenseIndexes :
          /\ transactions[i].category = Cat_Entertainment
          /\ Occurs(KW_subscription, CaseFolded(transactions[i].description))
    /\ AmountOver(SubscriptionIndexes) = 20000
    /\ ~Emitted(INSIGHT_SUBSCRIPTIONS)

\* C9: in the status report the savings rate is balance / income * 100 (shown
\* with one decimal) when income > 0 and 0 when income is 0; the advisory
\* replaces the healthy line exactly when the rate is below 15.  Income 5000
\* and expense 100 give balance 4900, rate 98.0 and the healthy line.
C9_SavingsRateAndAdvisory ==
    AnsweredWith("Executive Financial Summary") =>
        LET i      == IncomeTotal
            b      == IncomeTotal - ExpenseTotal
            shown  == response.body.savingsRate
            tenths == 10 * shown.whole + shown.frac
            off    == Abs(1000 * Abs(b) - tenths * i)
        IN  /\ i > 0 => /\ off <= i - off
                        /\ shown.negative = (b < 0)
                        /\ response.body.advisory = (100 * b < 15 * i)
            /\ i = 0 => /\ tenths = 0
                        /\ ~shown.negative
                        /\ response.body.advisory
            /\ i = 500000 /\ ExpenseTotal = 10000 =>
                  /\ response.body.balance = [negative |-> FALSE, whole |-> 4900, frac |-> 0]
                  /\ shown = [negative |-> FALSE, whole |-> 98, frac |-> 0]
                  /\ ~response.body.advisory

\* the example of the stress test: income 5000, expense 100
C9_Witness ==
    /\ AnsweredWith("Executive Financial Summary")
    /\ query = Q_stress1
    /\ IncomeTotal = 500000
    /\ ExpenseTotal = 10000

ZeroAmount == [negative |-> FALSE, whole |-> 0, frac |-> 0]

\* C10: generateResponse resolves with a text and never rejects, for every
\* query and list; for the empty list a status query reports balance 0 and
\* savings rate 0 and a spending query reports total 0 and 0 entries.
C10_NeverRejects ==
    response.kind # "pending" =>
        /\ response.kind = "resolved"
        /\ transactions = <<>> /\ AnsweredWith("Executive Financial Summary") =>
              /\ response.body.balance = ZeroAmount
              /\ response.body.savingsRate = ZeroAmount
              /\ response.body.records = 0
        /\ transactions = <<>> /\ AnsweredWith("Tactical Spending Analysis") =>
              /\ response.body.volume = ZeroAmount
              /\ response.body.density = 0

C10_Witness ==
    /\ transactions = <<>>
    /\ AnsweredWith("Tactical Spending Analysis")
    /\ response.body.density = 0

Templates ==
    { "Executive Financial Summary", "Category Comparison Report",
      "Tactical Spending Analysis", "Market Intelligence Report",
      "WealthWise Intelligence Console" }

\* C11: every text generateResponse returns, on each of its return paths,
\* ends with the disclaimer SYSTEM_PROMPT.disclaimer.
C11_DisclaimerSuffix ==
    response.kind = "resolved" =>
        /\ response.body.template \in Templates
        /\ response.suffix = SYSTEM_PROMPT.disclaimer

C11_Witness ==
    /\ AnsweredWith("WealthWise Intelligence Console")
    /\ response.suffix = SYSTEM_PROMPT.disclaimer

\* the window the words of the lower-cased query q select
ExpectedPeriod(q) ==
    IF Occurs(KW_today, q) THEN "today"
    ELSE IF Occurs(KW_yesterday, q) THEN "yesterday"
    ELSE IF Occurs(KW_month, q) THEN "this month"
    ELSE "all-time"

\* the instant d lies in the window named by period
InPeriod(d, period) ==
    CASE period = "today"      -> d.day = now.day
      [] period = "yesterday"  -> d.day = now.day - 1
      [] period = "this month" ->
            LET first == now.day - (now.day % MonthDays)
            IN  d.day > first \/ (d.day = first /\ d.ms > 0)
      [] OTHER                 -> TRUE

FirstMentioned(q) ==
    CHOOSE c \in MentionedIndexes(q) : \A d \in MentionedIndexes(q) : c <= d

\* C12: the spending report gives the sum and the number of exactly the
\* expenses that pass the temporal filter and, when a category name occurs in
\* the query, have the first mentioned category of the fixed category list;
\* the high-volume advice is given exactly when that sum is above 1000.
C12_SpendingReport ==
    AnsweredWith("Tactical Spending Analysis") =>
        LET q      == CaseFolded(query)
            picked == { i \in ExpenseIndexes :
                          /\ InPeriod(transactions[i].date, ExpectedPeriod(q))
                          /\ MentionedIndexes(q) # {} =>
                                CaseFolded(transactions[i].category)
                                    = categories[FirstMentioned(q)] }
        IN  /\ response.body.volume = formatCurrency(AmountOver(picked))
            /\ response.body.density = Cardinality(picked)
            /\ response.body.highVolume = (AmountOver(picked) > 100000)

\* transport is named before food, the window is yesterday; the food expenses
\* of yesterday exceed 1000 and a transport expense of yesterday is left out
C12_Witness ==
    /\ query = Q_spent_mixed
    /\ AnsweredWith("Tactical Spending Analysis")
    /\ response.body.highVolume
    /\ response.body.density = 2
    /\ \E i \in ExpenseIndexes :
          /\ transactions[i].category = Cat_Transport
          /\ transactions[i].date.day = now.day - 1

\* a query naming the categories with the indexes in M and "vs", without any
\* temporal word
RECURSIVE NamesFrom(_, _)
NamesFrom(c, M) ==
    IF c > Len(categories) THEN KW_vs
    ELSE IF c \in M THEN categories[c] \o Space \o NamesFrom(c + 1, M)
    ELSE NamesFrom(c + 1, M)

\* C13: the temporal filter takes one window by the priority today,
\* yesterday, month, all-time, and only the spending report uses it: the
\* status and comparison answers are those of the same question asked without
\* "today", "yesterday" or "month".
C13_TemporalFilterScope ==
    response.kind # "pending" =>
        LET q == CaseFolded(query)
        IN  /\ AnsweredWith("Tactical Spending Analysis") =>
                  response.body.period = ExpectedPeriod(q)
            /\ AnsweredWith("Executive Financial Summary") =>
                  response = generateResponse(KW_balance, transactions, now)
            /\ AnsweredWith("Category Comparison Report") =>
                  response = generateResponse(NamesFrom(1, MentionedIndexes(q)),
                                              transactions, now)

\* "yesterday" and "month" both occur and yesterday is taken
C13_Witness ==
    /\ query = Q_spent_mixed
    /\ AnsweredWith("Tactical Spending Analysis")
    /\ response.body.period = "yesterday"
    /\ \E i \in ExpenseIndexes : InPeriod(transactions[i].date, "this month")
                                 /\ ~InPeriod(transactions[i].date, "yesterday")

\* C14: the comparison report is the answer exactly when no status keyword
\* occurs, at least two category names occur and one of "vs", "compare",
\* "more than" occurs; it has one line per mentioned category with the sum of
\* the expenses of that category, so income never counts and a mentioned
\* income category such as salary is reported as 0.
C14_ComparisonReport ==
    response.kind # "pending" =>
        LET q == CaseFolded(query)
        IN  /\ AnsweredWith("Category Comparison Report")
                  <=> (~StatusTrigger(q) /\ ComparisonTrigger(q))
            /\ AnsweredWith("Category Comparison Report") =>
                  /\ Len(response.body.lines) = Cardinality(MentionedIndexes(q))
                  /\ \A c \in MentionedIndexes(q) :
                        \E k \in DOMAIN response.body.lines :
                            /\ response.body.lines[k].category = toUpperCase(categories[c])
                            /\ response.body.lines[k].amount
                                  = formatCurrency(CategoryTotal(c))

\* salary is mentioned, the list holds a salary income, and its line shows 0
C14_Witness ==
    /\ AnsweredWith("Category Comparison Report")
    /\ 8 \in MentionedIndexes(CaseFolded(query))
    /\ \E i \in IncomeIndexes : transactions[i].category = Cat_Salary
    /\ \E k \in DOMAIN response.body.lines :
          /\ response.body.lines[k].category = toUpperCase(categories[8])
          /\ response.body.lines[k].amount = ZeroAmount


-----------------------------------------------------------------------------
(* Properties of the transaction store: vocabulary *)

\* the item under key k of store s is the JSON text of a list
HoldsList(s, k) == s[k].kind = "json" /\ s[k].value.type = "array"

\* the list stored under key k of store s; empty when the item is no list
ListIn(s, k) == IF HoldsList(s, k) THEN s[k].value.items ELSE <<>>

\* ts without the transactions whose id is id, the others in their order
RECURSIVE Without(_, _)
Without(ts, id) ==
    IF ts = <<>> THEN <<>>
    ELSE IF ts[1].id = id THEN Without(Tail(ts), id)
    ELSE <<ts[1]>> \o Without(Tail(ts), id)

\* a and b are the same transactions but for their ids
SameButIds(a, b) ==
    /\ Len(a) = Len(b)
    /\ \A i \in 1..Len(a) : [a[i] EXCEPT !.id = 0] = [b[i] EXCEPT !.id = 0]

-----------------------------------------------------------------------------
\* C16: in every reachable state of the store, whatever sequence of getAll
\* (with seeding), add, delete and clear led to it, no two transactions of a
\* stored list have the same id.
C16_UniqueIds ==
    \A k \in StorageKeys :
        LET ts == ListIn(storage, k)
        IN  \A i, j \in 1..Len(ts) : i # j => ts[i].id # ts[j].id

\* a list that was seeded, lost a transaction and got two new ones
C16_Witness ==
    \E k \in StorageKeys :
        LET ts == ListIn(storage, k)
        IN  /\ Len(ts) = 5
            /\ ts[1].description \in { t.description : t \in StoreUniverse }
            /\ ts[2].description \in { t.description : t \in StoreUniverse }

-----------------------------------------------------------------------------
\* C17: a stored transaction never changes.  add on a stored list puts one
\* transaction in front of it and leaves the list behind it as it was;
\* delete(id) on a stored list leaves exactly the transactions whose id is
\* not id, unchanged and in their order; when no stored transaction has that
\* id the list stays as it was.
C17_AddDeleteFrame ==
    [][\A userId \in UserIds :
          LET k   == getStorageKey(userId)
              old == ListIn(storage, k)
              new == ListIn(storage', k)
          IN  HoldsList(storage, k) =>
                /\ (\E transaction \in StoreUniverse : Add(userId, transaction)) =>
                      /\ HoldsList(storage', k)
                      /\ Len(new) = Len(old) + 1
                      /\ SubSeq(new, 2, Len(new)) = old
                /\ \A id \in DeleteIds :
                      Delete(userId, id) =>
                        /\ HoldsList(storage', k)
                        /\ new = Without(old, id)
                        /\ (\A i \in 1..Len(old) : old[i].id # id) => new = old
      ]_vars

\* an added transaction in front of a seeded list that lost two of its four
C17_Witness ==
    \E k \in StorageKeys :
        LET ts == ListIn(storage, k)
        IN  /\ Len(ts) = 3
            /\ ts[1].description = D_refund
            /\ ts[2].description = D_salary
            /\ ts[3].description = D_freelance

-----------------------------------------------------------------------------
\* C19: a getAll for a user whose key holds no value writes the four sample
\* transactions to the store and returns them; a getAll for a user whose key
\* holds a list returns that list, ids included, writes nothing and draws no
\* new id, so that a second getAll with no mutation in between returns what
\* the first returned.
C19_SeedOnceThenIdempotent ==
    [][\A userId \in UserIds :
          LET k == getStorageKey(userId)
          IN  GetAll(userId) =>
                /\ storage[k] = NoItem =>
                      /\ returned'.type = "array"
                      /\ Len(returned'.items) = 4
                      /\ SameButIds(returned'.items, SeedList)
                      /\ HoldsList(storage', k)
                      /\ ListIn(storage', k) = returned'.items
                /\ HoldsList(storage, k) =>
                      /\ returned' = JsArray(ListIn(storage, k))
                      /\ storage' = storage
                      /\ nextUuid' = nextUuid
      ]_vars

\* getAll has returned a stored list that was seeded and then added to
C19_Witness ==
    /\ returned.type = "array"
    /\ Len(returned.items) = 5
    /\ \E k \in StorageKeys : HoldsList(storage, k) /\ ListIn(storage, k) = returned.items


-----------------------------------------------------------------------------
\* C18: whenever the value stored under a user's key is malformed, that is,
\* anything other than the serialized form of a list of transactions, getAll
\* returns the empty list (and does not throw).
C18_MalformedReadsEmpty ==
    [][\A userId \in UserIds :
          LET k == getStorageKey(userId)
          IN  (GetAll(userId) /\ storage[k] # NoItem /\ ~HoldsList(storage, k)) =>
                returned' = JsArray(<<>>)
      ]_vars


-----------------------------------------------------------------------------
\* no transaction of ts is followed by one with a later date
NewestFirst(ts) ==
    \A i, j \in 1..Len(ts) :
        i < j => ~ \/ ts[j].date.day > ts[i].date.day
                   \/ (ts[j].date.day = ts[i].date.day /\ ts[j].date.ms > ts[i].date.ms)

\* the form contents a submission has to have to be accepted
Acceptable(formData) ==
    /\ Len(formData.description) >= 2
    /\ formData.amount >= 1
    /\ formData.type \in {"income", "expense"}
    /\ Len(formData.category) >= 1

\* C15: in every state of the store reached by first-access seeding and any
\* sequence of adds and deletes, every stored list is ordered newest first
\* (no transaction is followed by one with a later date), and an accepted
\* submission of the form puts the new transaction, dated now, at the head
\* of the user's list.
C15_NewestFirst ==
    [][/\ \A k \in StorageKeys : NewestFirst(ListIn(storage', k))
       /\ \A formData \in FormInputs : \A at \in ClockReadings :
            (HandleAddTransaction(formData, at) /\ Acceptable(formData)) =>
                LET new == ListIn(storage', getStorageKey(user.id))
                IN  /\ Len(new) >= 1
                    /\ new[1].description = formData.description
                    /\ new[1].date = at
      ]_vars

-----------------------------------------------------------------------------
\* C20: in every state of the store reached by seeding and submissions of
\* the dashboard's form, every stored transaction has an amount above 0, a
\* type that is income or expense and one of the ten categories; a
\* submission that fails validation leaves the store as it was.
C20_ValidatedStore ==
    [][/\ \A k \in StorageKeys :
            LET ts == ListIn(storage', k)
            IN  \A i \in 1..Len(ts) :
                    /\ ts[i].amount > 0
                    /\ ts[i].type \in {"income", "expense"}
                    /\ ts[i].category \in TransactionCategory
       /\ \A formData \in FormInputs : \A at \in ClockReadings :
            (HandleAddTransaction(formData, at) /\ ~Acceptable(formData)) =>
                /\ storage' = storage
                /\ nextUuid' = nextUuid
      ]_vars

\* a submission was accepted and stored, and a later one was turned down
C20_Witness ==
    /\ user # NoUser
    /\ errors # {}
    /\ LET ts == ListIn(storage, getStorageKey(user.id))
       IN  /\ Len(ts) = 5
           /\ ts[1].description \in { f.description : f \in FormInputs }


-----------------------------------------------------------------------------
\* C21: generateInsights and generateResponse have no side effects: a step
\* in which one of them returns leaves the transaction list it was handed,
\* the transaction store and the stored session exactly as they were.
C21_NoSideEffects ==
    [][(insights' # insights \/ response' # response) =>
          /\ transactions' = transactions
          /\ storage' = storage
          /\ session' = session
      ]_vars

\* both calls have returned for a list of several transactions
C21_Witness ==
    /\ insights.kind = "returned"
    /\ response.kind = "resolved"
    /\ Len(transactions) >= 2
    /\ transactions[1] # transactions[Len(transactions)]


-----------------------------------------------------------------------------
\* C22: the market report does not depend on the user's data: when a query
\* is answered with the market report, the answer to the same query over
\* any other transaction list is the same.
C22_MarketReportIgnoresData ==
    AnsweredWith("Market Intelligence Report") =>
        \A other \in SampleLists \cup { SubSeq(transactions, 2, Len(transactions)) } :
            generateResponse(query, other, now) = response

\* a market report given over a list of several transactions
C22_Witness ==
    /\ AnsweredWith("Market Intelligence Report")
    /\ Len(transactions) >= 2
    /\ sumAmounts(transactions) > 0


-----------------------------------------------------------------------------
\* C23: after any add or delete the logged-in user makes on the dashboard,
\* the list the assistant passes to generateResponse for the next query (its
\* transactions prop) equals the current contents of that user's store.
C23_ChatSeesCurrentStore ==
    (user # NoUser /\ chat.mounted) =>
        chat.transactions = JsArray(ListIn(storage, getStorageKey(user.id)))

-----------------------------------------------------------------------------
\* C24: two logins with different emails always get different ids, so the
\* adds and deletes of one user never change the list getAll returns for the
\* other.
\* Checked on every step: the account logged in shares its id with no account
\* of another email, and a submission or a deletion on its dashboard leaves
\* the stored list of every account of another email as it was.
C24_DistinctEmailsDistinctIds ==
    [][\A other \in Accounts :
        /\ (user' # NoUser /\ other.email # user'.email) =>
                loginId(other.email) # user'.id
        /\ (user # NoUser /\ user' = user /\ other.email # user.email) =>
                ListIn(storage', getStorageKey(loginId(other.email)))
                    = ListIn(storage, getStorageKey(loginId(other.email)))
      ]_vars


-----------------------------------------------------------------------------
\* C25: when two tabs of the same user each add a transaction, the reads
\* and writes of the two calls interleaved in any order, both new
\* transactions are in the user's stored list once both calls have returned.
C25_ConcurrentAddsKept ==
    (\A i \in DOMAIN tabs : tabs[i].pc = "idle") =>
        \A i \in DOMAIN tabs : \A n \in 1..Len(tabs[i].added) :
            \E t \in { ListIn(storage, getStorageKey(tabs[i].userId))[j] :
                        j \in 1..Len(ListIn(storage, getStorageKey(tabs[i].userId))) } :
                t.id = tabs[i].added[n]


-----------------------------------------------------------------------------
\* the positions of the user messages that no assistant message follows
Unanswered(ms) ==
    { i \in 1..Len(ms) :
        /\ ms[i].role = "user"
        /\ (i = Len(ms) \/ ms[i + 1].role # "assistant") }

\* the text has no character but spaces
Blank(text) == \A i \in 1..Len(text) : text[i] = " "

\* C26: every accepted send (the input is not blank) is eventually followed
\* by a state with isTyping and isSearching both false, whether
\* generateResponse resolves or rejects; when it resolves exactly one
\* assistant message, carrying the response, is appended after that user
\* message, and when it rejects no message is appended.
C26_SendSettles ==
    /\ [](chat.isTyping => <>(~chat.isTyping /\ ~chat.isSearching))
    /\ [][/\ (~chat.isTyping /\ chat'.isTyping) =>
                /\ ~Blank(chat.inputValue)
                /\ chat'.messages =
                        Append(chat.messages, [role |-> "user", content |-> chat.inputValue])
          /\ (chat.isTyping /\ chat'.isTyping) => chat'.messages = chat.messages
          /\ (chat.isTyping /\ ~chat'.isTyping) =>
                /\ ~chat'.isSearching
                /\ chat.messages[Len(chat.messages)].role = "user"
                /\ IF chat.promise.kind = "resolved"
                   THEN chat'.messages =
                            Append(chat.messages,
                                   [role |-> "assistant", content |-> chat.promise])
                   ELSE chat'.messages = chat.messages
         ]_vars

\* a question that set isSearching was answered and both flags are down again
C26_Witness ==
    /\ chat.mounted
    /\ ~chat.isTyping
    /\ ~chat.isSearching
    /\ Len(chat.messages) = 3
    /\ chat.messages[2] = [role |-> "user", content |-> Q_market]
    /\ chat.messages[3].role = "assistant"
    /\ chat.messages[3].content.kind = "resolved"

-----------------------------------------------------------------------------
-----------------------------------------------------------------------------
\* the user the session item holds: the stored record, or none when the
\* item is absent or holds no user
PersistedUser(item) ==
    IF item.kind = "json" /\ item.value # JsNull THEN item.value ELSE NoUser

\* C28: after mount and after any sequence of login and logout calls the
\* in-memory user equals the user persisted under the session key: both are
\* the user of the latest login after login, both are absent after logout;
\* a persisted value that fails to parse at mount is removed and the user
\* stays null; the assistant (with the dashboard) is rendered only while a
\* user is present.
C28_SessionMirrorsUser ==
    [][/\ mounted' =>
            /\ user' = PersistedUser(session')
            /\ session' # NotJson
            /\ chat'.mounted <=> user' # NoUser
       /\ \A account \in Accounts :
            Login(account) =>
                /\ user'.name = account.name
                /\ user'.email = account.email
       /\ Logout => (user' = NoUser /\ session' = NoItem)
       /\ (~mounted /\ mounted' /\ session = NotJson) =>
            (user' = NoUser /\ session' = NoItem)
      ]_vars

\* a user is signed in whose store was seeded after the store of another
\* user: a login that followed a logout
C28_Witness ==
    /\ mounted
    /\ user # NoUser
    /\ session = JSON_stringify(user)
    /\ chat.mounted
    /\ nextUuid > FirstUuid + Len(SEED_DATA)


-----------------------------------------------------------------------------
\* C29: deleting every stored transaction one by one leaves a store for
\* which getAll returns the empty list without seeding again (a delete never
\* removes the item, and getAll of a stored empty list returns it and writes
\* nothing), whereas clear removes the item, so that the next getAll seeds
\* and returns the four samples again; logout alone never changes the stored
\* transactions.
C29_EmptiedIsNotCleared ==
    [][/\ \A userId \in UserIds :
            LET k == getStorageKey(userId)
            IN  /\ \A id \in DeleteIds :
                    (Delete(userId, id) /\ HoldsList(storage, k)) =>
                        /\ HoldsList(storage', k)
                        /\ ListIn(storage', k) = Without(ListIn(storage, k), id)
                        /\ nextUuid' = nextUuid
                /\ (GetAll(userId) /\ HoldsList(storage, k) /\ ListIn(storage, k) = <<>>) =>
                        /\ returned' = JsArray(<<>>)
                        /\ storage' = storage
                        /\ nextUuid' = nextUuid
                /\ Clear(userId) => storage'[k] = NoItem
                /\ (GetAll(userId) /\ storage[k] = NoItem) =>
                        /\ returned'.type = "array"
                        /\ SameButIds(returned'.items, SEED_DATA)
                        /\ ListIn(storage', k) = returned'.items
       /\ Logout => (storage' = storage /\ nextUuid' = nextUuid)
      ]_vars

\* the four seeded transactions of the user signed in were deleted, nothing
\* was seeded since, and getAll has returned the empty list
C29_Witness ==
    /\ user # NoUser
    /\ HoldsList(storage, getStorageKey(user.id))
    /\ ListIn(storage, getStorageKey(user.id)) = <<>>
    /\ nextUuid = FirstUuid + Len(SEED_DATA)
    /\ returned = JsArray(<<>>)


-----------------------------------------------------------------------------
\* the place of a string in the order of the rules
RuleRank(s) ==
    IF s \in SavingsStrings THEN 1
    ELSE IF s = INSIGHT_FOOD THEN 2
    ELSE IF s = INSIGHT_SUBSCRIPTIONS THEN 3
    ELSE 0

\* C30: for every non-empty transaction list whose amounts are all positive
\* generateInsights returns at least one string, the first being one of the
\* savings-rate rule; over lists of positive amounts the result is empty if
\* and only if total income and total expense are both 0; the strings come
\* in the order savings rate, food warning, subscription warning.
C30_SavingsRuleAlwaysSpeaks ==
    (/\ insights.kind = "returned"
     /\ \A i \in DOMAIN transactions : transactions[i].amount > 0) =>
        LET out == insights.value
        IN  /\ transactions # <<>> => (Len(out) >= 1 /\ out[1] \in SavingsStrings)
            /\ out = <<>> <=> (IncomeTotal = 0 /\ ExpenseTotal = 0)
            /\ \A i, j \in DOMAIN out : i < j => RuleRank(out[i]) < RuleRank(out[j])
            /\ \A i \in DOMAIN out : RuleRank(out[i]) > 0

\* the three rules have all contributed
C30_Witness ==
    /\ insights.kind = "returned"
    /\ Len(insights.value) = 3
    /\ transactions # <<>>
    /\ \A i \in DOMAIN transactions : transactions[i].amount > 0

=============================================================================
